---- MODULE Spec2Model ----
(***************************************************************************)
(* A model of two stages of the form compiler:                             *)
(*                                                                         *)
(*   - ffc/compiler/tensor/monomialtransformation.py: the construction of  *)
(*     a TransformedMonomial from a raw monomial (MonomialSpec);           *)
(*   - ffc/uflacs/generation/integralgenerator.py: IntegralGenerator's     *)
(*     generate() and the steps it calls (IntegralSpec).                   *)
(*                                                                         *)
(* MonomialIndex objects are compared by identity in the source (the class *)
(* defines no __eq__), so the model keeps them in a heap and every list of *)
(* the source that holds index objects holds heap references here.         *)
(***************************************************************************)
EXTENDS Integers, Sequences, FiniteSets, TLC

(***************************************************************************)
(* Bounds of the model.                                                    *)
(***************************************************************************)
\* The longest raw monomial (number of factors) the model transforms.
MaxFactors == 3

(***************************************************************************)
(* MonomialIndex: the role tags, and the value of an absent type or id.    *)
(***************************************************************************)
FIXED == "fixed"
PRIMARY == "primary"
SECONDARY == "secondary"
INTERNAL == "internal"
EXTERNAL == "external"
\* index_type=None: the index has no role yet.
NoneType == "None"
\* index_id=None.
NoneId == -1
\* restriction=None of a factor.
NoRestriction == "None"

\* The value of Python's range(n): <<0, ..., n-1>>.
Range(n) == [k \in 1..n |-> k - 1]

\* MonomialIndex(index_type=..., index_range=..., index_id=...).
MonomialIndex(index_type, index_range, index_id) ==
    [index_type |-> index_type, index_range |-> index_range, index_id |-> index_id]

\* Lines 95-99 without line 98: the copy keeps the range of the original.
IndexAdd_unshifted(index, offset) == index

\* MonomialIndex.__add__: a copy of the index (same role, same id) whose
\* range is every value of the original shifted by the offset.
IndexAdd(index, offset) ==
    [index EXCEPT !.index_range = [k \in 1..Len(@) |-> offset + @[k]]]

\* MonomialIndex.__sub__: self + (-offset).
IndexSub(index, offset) == IndexAdd(index, 0 - offset)

(***************************************************************************)
(* MonomialTransform: the two transform kinds.                             *)
(***************************************************************************)
J == "J"
JINV == "JINV"

(***************************************************************************)
(* The element provider (ffc.fem.create_element), which the transformer    *)
(* only queries.  The model offers five elements on a triangle:            *)
(*   P   scalar Lagrange;                                                  *)
(*   V   vector Lagrange, one affine sub-element per component;            *)
(*   RT  Raviart-Thomas, one contravariant Piola sub-element;              *)
(*   ND  Nedelec, one covariant Piola sub-element;                         *)
(*   MX  the mixed element P x RT: component 0 is the affine P, components *)
(*       1 and 2 are the contravariant RT, whose numbering starts at 1.    *)
(***************************************************************************)
AFFINE == "affine"
CONTRAVARIANT_PIOLA == "contravariant Piola"
COVARIANT_PIOLA == "covariant Piola"

Elements == {"P", "V", "RT", "ND", "MX"}

\* element.value_dimension(0)
value_dimension(e) ==
    CASE e = "P" -> 1 [] e = "V" -> 2 [] e = "RT" -> 2 [] e = "ND" -> 2 [] e = "MX" -> 3

\* element.space_dimension()
space_dimension(e) ==
    CASE e = "P" -> 3 [] e = "V" -> 6 [] e = "RT" -> 3 [] e = "ND" -> 3 [] e = "MX" -> 6

\* element.geometric_dimension()
geometric_dimension(e) == 2

\* element.component_element(c): the mapping of the sub-element that holds
\* component c, and the offset of that sub-element's first component.
component_element(e, c) ==
    CASE e = "P" -> [mapping |-> AFFINE, offset |-> 0]
      [] e = "V" -> [mapping |-> AFFINE, offset |-> c]
      [] e = "RT" -> [mapping |-> CONTRAVARIANT_PIOLA, offset |-> 0]
      [] e = "ND" -> [mapping |-> COVARIANT_PIOLA, offset |-> 0]
      [] e = "MX" -> IF c = 0 THEN [mapping |-> AFFINE, offset |-> 0]
                     ELSE [mapping |-> CONTRAVARIANT_PIOLA, offset |-> 1]

(***************************************************************************)
(* Raw monomials.  A component or a derivative direction of a factor is a  *)
(* UFL index: a FixedIndex (a literal) or a free Index.  The source uses   *)
(* them as dictionary keys (index_map), and UFL hashes and compares a      *)
(* FixedIndex by its value and an Index by its count, so a key is the pair *)
(* of its kind and that number.                                            *)
(***************************************************************************)
FixedIndex(value) == [fixed |-> TRUE, v |-> value]
Index(count) == [fixed |-> FALSE, v |-> count]

\* f.function: an unknown (BasisFunction) or a known coefficient (Function).
BasisFunction(count) == [kind |-> "BasisFunction", count |-> count]
Function(count) == [kind |-> "Function", count |-> count]

Factor(e, function, components, derivatives, restriction) ==
    [element |-> e, function |-> function, components |-> components,
     derivatives |-> derivatives, restriction |-> restriction]

\* The factors the model draws raw monomials from.  Free index 0 ranges over
\* two values (a component of V, RT, ND or a direction) and so does free
\* index 3, free index 1 ranges over the three components of MX, and free
\* index 2 is a second tensor axis.
Factors ==
    { Factor("P", BasisFunction(0), <<>>, <<>>, NoRestriction),
      Factor("P", Function(0), <<>>, <<>>, NoRestriction),
      Factor("P", BasisFunction(1), <<>>, <<Index(0)>>, "+"),
      Factor("P", Function(0), <<>>, <<FixedIndex(0)>>, NoRestriction),
      Factor("P", BasisFunction(0), <<>>, <<Index(0), Index(0)>>, NoRestriction),
      Factor("V", BasisFunction(0), <<Index(0)>>, <<>>, NoRestriction),
      Factor("V", BasisFunction(1), <<FixedIndex(0)>>, <<>>, NoRestriction),
      Factor("V", BasisFunction(1), <<Index(0)>>, <<Index(0)>>, NoRestriction),
      Factor("RT", BasisFunction(0), <<Index(0), Index(2)>>, <<Index(0)>>, NoRestriction),
      Factor("RT", BasisFunction(0), <<Index(0)>>, <<>>, "+"),
      Factor("ND", BasisFunction(1), <<Index(0)>>, <<>>, NoRestriction),
      Factor("ND", Function(0), <<FixedIndex(1)>>, <<FixedIndex(1)>>, "+"),
      Factor("MX", BasisFunction(0), <<FixedIndex(1)>>, <<>>, "+"),
      Factor("MX", BasisFunction(1), <<FixedIndex(0)>>, <<>>, NoRestriction),
      Factor("MX", BasisFunction(0), <<Index(1)>>, <<Index(0)>>, NoRestriction),
      Factor("V", Function(0), <<Index(3)>>, <<>>, "+"),
      Factor("P", BasisFunction(1), <<>>, <<Index(3), Index(3)>>, NoRestriction) }

(***************************************************************************)
(* State.                                                                  *)
(***************************************************************************)
VARIABLES
    \* monomialtransformation.py ------------------------------------------
    current_secondary_index,  \* the module's three index counters
    current_internal_index,
    current_external_index,
    heap,              \* the MonomialIndex objects of the construction
    index_map,         \* the local index_map of __init__
    self,              \* the TransformedMonomial under construction
    monomial,          \* the raw monomial: the factors read so far
    internal_indices,  \* the local lists of lines 301-302
    external_indices,
    ci,                \* position of the loop of line 303
    pc,                \* where the construction stands
    error,             \* the exception that ended it, or "" for none
    stale              \* history: __init__ was just called with a counter not 0

mvars == <<current_secondary_index, current_internal_index, current_external_index,
           heap, index_map, self, monomial, internal_indices, external_indices,
           ci, pc, error, stale>>


\* The state of one IntegralGenerator and of a call of its generate():
\*   ir, ufl_names, vaccesses  self.ir, self._ufl_names, self.vaccesses
\*   parts, body               the locals of generate()
\*   all_num_points, qi        sorted(expr_irs) and the position of the loop
\*                             of line 101 in it
\*   gpc                       the position in generate()
\*   gerror                    the exception that ended generate(), if any
VARIABLES ir, ufl_names, vaccesses, parts, body, all_num_points, qi, gpc, gerror

gvars == <<ir, ufl_names, vaccesses, parts, body, all_num_points, qi, gpc, gerror>>

\* A call of MonomialIndex.__call__: the index and the four arguments, and
\* what the call gave.
VARIABLES called, result

evars == <<called, result>>

vars == <<mvars, gvars, evars>>

(***************************************************************************)
(* Helpers on sequences.                                                   *)
(***************************************************************************)
\* len([j for j in s if j == x])
Count(s, x) == Cardinality({k \in 1..Len(s) : s[k] = x})

\* The elements of s as a set.
Elems(s) == {s[k] : k \in 1..Len(s)}

(***************************************************************************)
(* MonomialTransform.__init__: the transform record, and the heap after    *)
(* it.  A FIXED endpoint is replaced by a new instance, index - offset.    *)
(***************************************************************************)
MonomialTransformKeep(h, index0, index1, transform_type, restriction, offset) ==
    [heap |-> h,
     transform |-> [index0 |-> index0, index1 |-> index1,
                    transform_type |-> transform_type,
                    restriction |-> restriction, offset |-> offset]]

MonomialTransform(h, index0, index1, transform_type, restriction, offset) ==
    LET fixed0 == h[index0].index_type = FIXED
        h0 == IF fixed0 THEN Append(h, IndexSub(h[index0], offset)) ELSE h
        i0 == IF fixed0 THEN Len(h0) ELSE index0
        fixed1 == h[index1].index_type = FIXED
        h1 == IF fixed1 THEN Append(h0, IndexSub(h[index1], offset)) ELSE h0
        i1 == IF fixed1 THEN Len(h1) ELSE index1
    IN  [heap |-> h1,
         transform |-> [index0 |-> i0, index1 |-> i1,
                        transform_type |-> transform_type,
                        restriction |-> restriction, offset |-> offset]]

(***************************************************************************)
(* TransformedMonomial._extract_components: resolves f.components from     *)
(* position k on, through index_map.                                       *)
(***************************************************************************)
\* index_map[c] = index
MapPut(im, c, index) ==
    [x \in (DOMAIN im) \cup {c} |-> IF x = c THEN index ELSE im[x]]

RECURSIVE extract_components(_, _, _, _, _)
extract_components(cs, k, h, im, vdim) ==
    IF k > Len(cs)
    THEN [heap |-> h, index_map |-> im, components |-> <<>>]
    ELSE LET c == cs[k]
             known == c \in DOMAIN im
             h1 == IF known THEN h
                   ELSE IF c.fixed
                        THEN Append(h, MonomialIndex(FIXED, <<c.v>>, NoneId))
                        ELSE Append(h, MonomialIndex(NoneType, Range(vdim), NoneId))
             index == IF known THEN im[c] ELSE Len(h1)
             rest == extract_components(cs, k + 1, h1, MapPut(im, c, index), vdim)
         IN  [rest EXCEPT !.components = <<index>> \o @]

(***************************************************************************)
(* TransformedMonomial.__init__, the body of the loop over the factors.    *)
(***************************************************************************)
\* The messages of the exceptions that end a construction.
RANK_ERROR == "Can only handle rank 0 or rank 1 tensors."
MAPPING_ERROR == "Unable to handle different mappings for index range."
CONTRACTION_ERROR == "Summation index does not appear exactly twice"

\* Lines 252-255: the component ranges over several values whose
\* sub-elements do not all have the mapping of the first one.
different_mappings_never(e, index_range) == FALSE

different_mappings(e, index_range) ==
    /\ Len(index_range) > 1
    /\ LET same == component_element(e, index_range[1]).mapping
       IN  ~ \A k \in 1..Len(index_range) :
                 component_element(e, index_range[k]).mapping = same

\* Lines 256-274: the Piola transform of the factor's one component.  T holds
\* the heap, the transforms, the determinant power and the component list.
piola_covariant_scaled(T, e, restriction) ==
    LET component == T.components[1]
        ce == component_element(e, T.heap[component].index_range[1])
        gdim == geometric_dimension(e)
        fresh == IndexAdd(MonomialIndex(NoneType, Range(gdim), NoneId), ce.offset)
        h1 == Append(T.heap, fresh)
        new == Len(h1)
    IN  IF ce.mapping = CONTRAVARIANT_PIOLA
        THEN LET t == MonomialTransform(h1, component, new, J, restriction, ce.offset)
             IN  [heap |-> t.heap, transforms |-> Append(T.transforms, t.transform),
                  power |-> T.power - 1, components |-> <<new>>]
        ELSE IF ce.mapping = COVARIANT_PIOLA
        THEN LET t == MonomialTransform(h1, new, component, JINV, restriction, ce.offset)
             IN  [heap |-> t.heap, transforms |-> Append(T.transforms, t.transform),
                  power |-> T.power - 1, components |-> <<new>>]
        ELSE T

\* Lines 256-274 without lines 265 and 272: the component list is left as
\* _extract_components gave it.
piola_component_kept(T, e, restriction) ==
    LET component == T.components[1]
        ce == component_element(e, T.heap[component].index_range[1])
        gdim == geometric_dimension(e)
        fresh == IndexAdd(MonomialIndex(NoneType, Range(gdim), NoneId), ce.offset)
        h1 == Append(T.heap, fresh)
        new == Len(h1)
    IN  IF ce.mapping = CONTRAVARIANT_PIOLA
        THEN LET t == MonomialTransform(h1, component, new, J, restriction, ce.offset)
             IN  [heap |-> t.heap, transforms |-> Append(T.transforms, t.transform),
                  power |-> T.power - 1, components |-> T.components]
        ELSE IF ce.mapping = COVARIANT_PIOLA
        THEN LET t == MonomialTransform(h1, new, component, JINV, restriction, ce.offset)
             IN  [heap |-> t.heap, transforms |-> Append(T.transforms, t.transform),
                  power |-> T.power, components |-> T.components]
        ELSE T

piola(T, e, restriction) ==
    LET component == T.components[1]
        ce == component_element(e, T.heap[component].index_range[1])
        gdim == geometric_dimension(e)
        fresh == IndexAdd(MonomialIndex(NoneType, Range(gdim), NoneId), ce.offset)
        h1 == Append(T.heap, fresh)
        new == Len(h1)
    IN  IF ce.mapping = CONTRAVARIANT_PIOLA
        THEN LET t == MonomialTransform(h1, component, new, J, restriction, ce.offset)
             IN  [heap |-> t.heap, transforms |-> Append(T.transforms, t.transform),
                  power |-> T.power - 1, components |-> <<new>>]
        ELSE IF ce.mapping = COVARIANT_PIOLA
        THEN LET t == MonomialTransform(h1, new, component, JINV, restriction, ce.offset)
             IN  [heap |-> t.heap, transforms |-> Append(T.transforms, t.transform),
                  power |-> T.power, components |-> <<new>>]
        ELSE T

\* Lines 277-291 without the lookup of lines 279-280: every direction gets an
\* index of its own.
RECURSIVE extract_derivatives_unshared(_, _, _, _, _, _, _)
extract_derivatives_unshared(ds, k, h, im, transforms, gdim, restriction) ==
    IF k > Len(ds)
    THEN [heap |-> h, index_map |-> im, transforms |-> transforms, derivatives |-> <<>>]
    ELSE LET d == ds[k]
             h0 == Append(h, MonomialIndex(NoneType, Range(gdim), NoneId))
             index0 == Len(h0)
             h1 == IF d.fixed
                   THEN Append(h0, MonomialIndex(FIXED, <<d.v>>, d.v))
                   ELSE Append(h0, MonomialIndex(NoneType, Range(gdim), NoneId))
             index1 == Len(h1)
             t == MonomialTransform(h1, index0, index1, JINV, restriction, 0)
             rest == extract_derivatives_unshared(ds, k + 1, t.heap, MapPut(im, d, index1),
                                                  Append(transforms, t.transform), gdim,
                                                  restriction)
         IN  [rest EXCEPT !.derivatives = <<index0>> \o @]

\* Lines 277-291 with line 288 putting the gradient index at the front of
\* the list.
RECURSIVE extract_derivatives_reversed(_, _, _, _, _, _, _)
extract_derivatives_reversed(ds, k, h, im, transforms, gdim, restriction) ==
    IF k > Len(ds)
    THEN [heap |-> h, index_map |-> im, transforms |-> transforms, derivatives |-> <<>>]
    ELSE LET d == ds[k]
             h0 == Append(h, MonomialIndex(NoneType, Range(gdim), NoneId))
             index0 == Len(h0)
             known == d \in DOMAIN im
             h1 == IF known THEN h0
                   ELSE IF d.fixed
                        THEN Append(h0, MonomialIndex(FIXED, <<d.v>>, d.v))
                        ELSE Append(h0, MonomialIndex(NoneType, Range(gdim), NoneId))
             index1 == IF known THEN im[d] ELSE Len(h1)
             t == MonomialTransform(h1, index0, index1, JINV, restriction, 0)
             rest == extract_derivatives_reversed(ds, k + 1, t.heap, MapPut(im, d, index1),
                                                  Append(transforms, t.transform), gdim,
                                                  restriction)
         IN  [rest EXCEPT !.derivatives = @ \o <<index0>>]

\* Lines 277-291: the loop over f.derivatives, from position k on.
RECURSIVE extract_derivatives(_, _, _, _, _, _, _)
extract_derivatives(ds, k, h, im, transforms, gdim, restriction) ==
    IF k > Len(ds)
    THEN [heap |-> h, index_map |-> im, transforms |-> transforms, derivatives |-> <<>>]
    ELSE LET d == ds[k]
             h0 == Append(h, MonomialIndex(NoneType, Range(gdim), NoneId))
             index0 == Len(h0)
             known == d \in DOMAIN im
             h1 == IF known THEN h0
                   ELSE IF d.fixed
                        THEN Append(h0, MonomialIndex(FIXED, <<d.v>>, d.v))
                        ELSE Append(h0, MonomialIndex(NoneType, Range(gdim), NoneId))
             index1 == IF known THEN im[d] ELSE Len(h1)
             t == MonomialTransform(h1, index0, index1, JINV, restriction, 0)
             rest == extract_derivatives(ds, k + 1, t.heap, MapPut(im, d, index1),
                                         Append(transforms, t.transform), gdim, restriction)
         IN  [rest EXCEPT !.derivatives = <<index0>> \o @]

\* MonomialBasisFunction(element, index, components, derivatives, restriction)
MonomialBasisFunction(element, index, components, derivatives, restriction) ==
    [element |-> element, index |-> index, components |-> components,
     derivatives |-> derivatives, restriction |-> restriction]

\* Lines 224-298: one factor.  S is [heap, index_map, self]; the result adds
\* error, the message of the exception raised or "" when the factor was
\* packaged.  An exception leaves what had been written before it.
\* Lines 222-298 without the check of line 244.
process_factor_rank_unchecked(S, f) ==
    LET e == f.element
        vdim == value_dimension(e)
        sdim == space_dimension(e)
        gdim == geometric_dimension(e)
        unknown == f.function.kind = "BasisFunction"
        \* lines 232-240
        h1 == Append(S.heap,
                     IF unknown
                     THEN MonomialIndex(PRIMARY, Range(sdim), f.function.count)
                     ELSE MonomialIndex(NoneType, Range(sdim), NoneId))
        vindex == Len(h1)
        coefficients == IF unknown THEN S.self.coefficients
                        ELSE Append(S.self.coefficients,
                                    [index |-> vindex, number |-> f.function.count])
        self1 == [S.self EXCEPT !.coefficients = coefficients]
        \* line 243
        ec == extract_components(f.components, 1, h1, S.index_map, vdim)
    IN  IF FALSE
        THEN [heap |-> ec.heap, index_map |-> ec.index_map, self |-> self1,
              error |-> RANK_ERROR]
        ELSE IF /\ Len(ec.components) > 0
                /\ different_mappings(e, ec.heap[ec.components[1]].index_range)
        THEN [heap |-> ec.heap, index_map |-> ec.index_map, self |-> self1,
              error |-> MAPPING_ERROR]
        ELSE LET T0 == [heap |-> ec.heap, transforms |-> self1.transforms,
                        power |-> self1.determinant.power,
                        components |-> ec.components]
                 T1 == IF Len(ec.components) > 0 THEN piola(T0, e, f.restriction) ELSE T0
                 ed == extract_derivatives(f.derivatives, 1, T1.heap, ec.index_map,
                                           T1.transforms, gdim, f.restriction)
                 v == MonomialBasisFunction(e, vindex, T1.components, ed.derivatives,
                                            f.restriction)
             IN  [heap |-> ed.heap, index_map |-> ed.index_map,
                  self |-> [self1 EXCEPT !.determinant.power = T1.power,
                                         !.transforms = ed.transforms,
                                         !.basis_functions = Append(@, v)],
                  error |-> ""]

process_factor(S, f) ==
    LET e == f.element
        vdim == value_dimension(e)
        sdim == space_dimension(e)
        gdim == geometric_dimension(e)
        unknown == f.function.kind = "BasisFunction"
        \* lines 232-240
        h1 == Append(S.heap,
                     IF unknown
                     THEN MonomialIndex(PRIMARY, Range(sdim), f.function.count)
                     ELSE MonomialIndex(NoneType, Range(sdim), NoneId))
        vindex == Len(h1)
        coefficients == IF unknown THEN S.self.coefficients
                        ELSE Append(S.self.coefficients,
                                    [index |-> vindex, number |-> f.function.count])
        self1 == [S.self EXCEPT !.coefficients = coefficients]
        \* line 243
        ec == extract_components(f.components, 1, h1, S.index_map, vdim)
    IN  IF Len(ec.components) > 1
        THEN [heap |-> ec.heap, index_map |-> ec.index_map, self |-> self1,
              error |-> RANK_ERROR]
        ELSE IF /\ Len(ec.components) > 0
                /\ different_mappings(e, ec.heap[ec.components[1]].index_range)
        THEN [heap |-> ec.heap, index_map |-> ec.index_map, self |-> self1,
              error |-> MAPPING_ERROR]
        ELSE LET T0 == [heap |-> ec.heap, transforms |-> self1.transforms,
                        power |-> self1.determinant.power,
                        components |-> ec.components]
                 T1 == IF Len(ec.components) > 0 THEN piola(T0, e, f.restriction) ELSE T0
                 ed == extract_derivatives(f.derivatives, 1, T1.heap, ec.index_map,
                                           T1.transforms, gdim, f.restriction)
                 v == MonomialBasisFunction(e, vindex, T1.components, ed.derivatives,
                                            f.restriction)
             IN  [heap |-> ed.heap, index_map |-> ed.index_map,
                  self |-> [self1 EXCEPT !.determinant.power = T1.power,
                                         !.transforms = ed.transforms,
                                         !.basis_functions = Append(@, v)],
                  error |-> ""]

(***************************************************************************)
(* The footprints and the classification of the untyped indices.           *)
(***************************************************************************)
\* [v.index] + v.components + v.derivatives, for v in basis_functions[k..]
RECURSIVE basis_function_indices(_, _)
basis_function_indices(bfs, k) ==
    IF k > Len(bfs) THEN <<>>
    ELSE <<bfs[k].index>> \o bfs[k].components \o bfs[k].derivatives
         \o basis_function_indices(bfs, k + 1)

\* extract_internal_indices(index_type)
extract_internal_indices(s, h, index_type) ==
    SelectSeq(basis_function_indices(s.basis_functions, 1),
              LAMBDA i : h[i].index_type = index_type)

\* extract_external_indices(index_type)
extract_external_indices(s, h, index_type) ==
    SelectSeq([k \in 1..Len(s.coefficients) |-> s.coefficients[k].index]
              \o [k \in 1..Len(s.transforms) |-> s.transforms[k].index0]
              \o [k \in 1..Len(s.transforms) |-> s.transforms[k].index1],
              LAMBDA i : h[i].index_type = index_type)

\* Lines 305-323, one pass of the loop for index i: C is the three counters.
\* An index that has a role already is skipped.
classify_internal_first(h, C, internal, external, i) ==
    LET num_internal == Count(internal, i)
        num_external == Count(external, i)
    IN  IF h[i].index_type # NoneType
        THEN [heap |-> h, counters |-> C, error |-> ""]
        ELSE IF num_internal = 1 /\ num_external = 1
        THEN [heap |-> [h EXCEPT ![i].index_type = SECONDARY,
                                 ![i].index_id = C.secondary],
              counters |-> [C EXCEPT !.secondary = @ + 1], error |-> ""]
        ELSE IF num_internal = 2
        THEN [heap |-> [h EXCEPT ![i].index_type = INTERNAL,
                                 ![i].index_id = C.internal],
              counters |-> [C EXCEPT !.internal = @ + 1], error |-> ""]
        ELSE IF num_internal = 0 /\ num_external = 2
        THEN [heap |-> [h EXCEPT ![i].index_type = EXTERNAL,
                                 ![i].index_id = C.external],
              counters |-> [C EXCEPT !.external = @ + 1], error |-> ""]
        ELSE [heap |-> h, counters |-> C, error |-> CONTRACTION_ERROR]

classify_no_error(h, C, internal, external, i) ==
    LET num_internal == Count(internal, i)
        num_external == Count(external, i)
    IN  IF h[i].index_type # NoneType
        THEN [heap |-> h, counters |-> C, error |-> ""]
        ELSE IF num_internal = 1 /\ num_external = 1
        THEN [heap |-> [h EXCEPT ![i].index_type = SECONDARY,
                                 ![i].index_id = C.secondary],
              counters |-> [C EXCEPT !.secondary = @ + 1], error |-> ""]
        ELSE IF num_internal = 2 /\ num_external = 0
        THEN [heap |-> [h EXCEPT ![i].index_type = INTERNAL,
                                 ![i].index_id = C.internal],
              counters |-> [C EXCEPT !.internal = @ + 1], error |-> ""]
        ELSE IF num_internal = 0 /\ num_external = 2
        THEN [heap |-> [h EXCEPT ![i].index_type = EXTERNAL,
                                 ![i].index_id = C.external],
              counters |-> [C EXCEPT !.external = @ + 1], error |-> ""]
        ELSE [heap |-> h, counters |-> C, error |-> ""]

\* Lines 305-323 with line 320 drawing from next_internal_index().
classify_shared_counter(h, C, internal, external, i) ==
    LET num_internal == Count(internal, i)
        num_external == Count(external, i)
    IN  IF h[i].index_type # NoneType
        THEN [heap |-> h, counters |-> C, error |-> ""]
        ELSE IF num_internal = 1 /\ num_external = 1
        THEN [heap |-> [h EXCEPT ![i].index_type = SECONDARY,
                                 ![i].index_id = C.secondary],
              counters |-> [C EXCEPT !.secondary = @ + 1], error |-> ""]
        ELSE IF num_internal = 2 /\ num_external = 0
        THEN [heap |-> [h EXCEPT ![i].index_type = INTERNAL,
                                 ![i].index_id = C.internal],
              counters |-> [C EXCEPT !.internal = @ + 1], error |-> ""]
        ELSE IF num_internal = 0 /\ num_external = 2
        THEN [heap |-> [h EXCEPT ![i].index_type = EXTERNAL,
                                 ![i].index_id = C.internal],
              counters |-> [C EXCEPT !.internal = @ + 1], error |-> ""]
        ELSE [heap |-> h, counters |-> C, error |-> CONTRACTION_ERROR]

classify(h, C, internal, external, i) ==
    LET num_internal == Count(internal, i)
        num_external == Count(external, i)
    IN  IF h[i].index_type # NoneType
        THEN [heap |-> h, counters |-> C, error |-> ""]
        ELSE IF num_internal = 1 /\ num_external = 1
        THEN [heap |-> [h EXCEPT ![i].index_type = SECONDARY,
                                 ![i].index_id = C.secondary],
              counters |-> [C EXCEPT !.secondary = @ + 1], error |-> ""]
        ELSE IF num_internal = 2 /\ num_external = 0
        THEN [heap |-> [h EXCEPT ![i].index_type = INTERNAL,
                                 ![i].index_id = C.internal],
              counters |-> [C EXCEPT !.internal = @ + 1], error |-> ""]
        ELSE IF num_internal = 0 /\ num_external = 2
        THEN [heap |-> [h EXCEPT ![i].index_type = EXTERNAL,
                                 ![i].index_id = C.external],
              counters |-> [C EXCEPT !.external = @ + 1], error |-> ""]
        ELSE [heap |-> h, counters |-> C, error |-> CONTRACTION_ERROR]

(***************************************************************************)
(* The construction of a TransformedMonomial, step by step.                *)
(***************************************************************************)
\* The three counters as one record.
counters ==
    [secondary |-> current_secondary_index, internal |-> current_internal_index,
     external |-> current_external_index]

\* reset_indices(): the counters after it.
reset_indices_kept == counters

reset_indices == [secondary |-> 0, internal |-> 0, external |-> 0]

\* Lines 209-213: the monomial data before the first factor.  (float_value
\* is a copy of the raw monomial's and takes no part in what follows.)
EmptyMonomial ==
    [determinant |-> [power |-> 0, restriction |-> NoRestriction],
     coefficients |-> <<>>, transforms |-> <<>>, basis_functions |-> <<>>]

\* The indices the loop of line 303 runs over.
todo == internal_indices \o external_indices

MonomialInit ==
    /\ current_secondary_index = 0
    /\ current_internal_index = 0
    /\ current_external_index = 0
    /\ heap = <<>>
    /\ index_map = <<>>
    /\ self = EmptyMonomial
    /\ monomial = <<>>
    /\ internal_indices = <<>>
    /\ external_indices = <<>>
    /\ ci = 1
    /\ pc = "idle"
    /\ error = ""
    /\ stale = FALSE

\* Lines 206-219: TransformedMonomial(monomial) is called.  The raw
\* monomial's factor list is read once, front to back, by the loop of line
\* 222; the model draws each factor when the loop reaches it and records the
\* factors read so far in monomial.
Construct ==
    /\ pc = "idle"
    /\ self' = EmptyMonomial
    /\ current_secondary_index' = reset_indices.secondary
    /\ current_internal_index' = reset_indices.internal
    /\ current_external_index' = reset_indices.external
    /\ index_map' = <<>>
    /\ heap' = <<>>
    /\ monomial' = <<>>
    /\ pc' = "factors"
    /\ error' = ""
    /\ stale' = (counters # [secondary |-> 0, internal |-> 0, external |-> 0])
    /\ UNCHANGED <<internal_indices, external_indices, ci>>
    /\ UNCHANGED <<gvars, evars>>

\* Lines 222-298: the loop body for the next factor f.
TransformFactor(f) ==
    /\ pc = "factors"
    /\ Len(monomial) < MaxFactors
    /\ LET r == process_factor([heap |-> heap, index_map |-> index_map, self |-> self], f)
       IN  /\ heap' = r.heap
           /\ index_map' = r.index_map
           /\ self' = r.self
           /\ error' = r.error
           /\ pc' = IF r.error = "" THEN "factors" ELSE "failed"
    /\ monomial' = Append(monomial, f)
    /\ stale' = FALSE
    /\ UNCHANGED <<current_secondary_index, current_internal_index,
                   current_external_index, internal_indices, external_indices, ci>>
    /\ UNCHANGED <<gvars, evars>>

\* Lines 300-302: the factors are exhausted; the two footprints of the
\* untyped indices are taken.
ExtractIndices ==
    /\ pc = "factors"
    /\ internal_indices' = extract_internal_indices(self, heap, NoneType)
    /\ external_indices' = extract_external_indices(self, heap, NoneType)
    /\ ci' = 1
    /\ pc' = "classify"
    /\ stale' = FALSE
    /\ UNCHANGED <<current_secondary_index, current_internal_index,
                   current_external_index, heap, index_map, self, monomial, error>>
    /\ UNCHANGED <<gvars, evars>>

\* The first position from k on of an index that has no role yet (line 306
\* skips the others), Len(todo) + 1 when there is none.
RECURSIVE next_untyped(_)
next_untyped(k) ==
    IF k > Len(todo) \/ heap[todo[k]].index_type = NoneType THEN k
    ELSE next_untyped(k + 1)

\* Lines 303-323: the loop over internal_indices + external_indices runs up
\* to and through its next index that has no role yet.
Classify ==
    /\ pc = "classify"
    /\ next_untyped(ci) <= Len(todo)
    /\ LET r == classify(heap, counters, internal_indices, external_indices,
                         todo[next_untyped(ci)])
       IN  /\ heap' = r.heap
           /\ current_secondary_index' = r.counters.secondary
           /\ current_internal_index' = r.counters.internal
           /\ current_external_index' = r.counters.external
           /\ error' = r.error
           /\ pc' = IF r.error = "" THEN "classify" ELSE "failed"
    /\ ci' = next_untyped(ci) + 1
    /\ UNCHANGED <<index_map, self, monomial, internal_indices, external_indices,
                   stale>>
    /\ UNCHANGED <<gvars, evars>>

\* The rest of the loop of line 303 has only indices with a role: the loop
\* ends and __init__ returns.
Finish ==
    /\ pc = "classify"
    /\ next_untyped(ci) > Len(todo)
    /\ pc' = "done"
    /\ ci' = Len(todo) + 1
    /\ UNCHANGED <<current_secondary_index, current_internal_index,
                   current_external_index, heap, index_map, self, monomial,
                   internal_indices, external_indices, error, stale>>
    /\ UNCHANGED <<gvars, evars>>

\* Lines 384-386: the caller goes on to its next monomial (or, after an
\* exception, is called again later).  Only the module's counters stay.
Return ==
    /\ pc \in {"done", "failed"}
    /\ pc' = "idle"
    /\ heap' = <<>>
    /\ index_map' = <<>>
    /\ self' = EmptyMonomial
    /\ monomial' = <<>>
    /\ internal_indices' = <<>>
    /\ external_indices' = <<>>
    /\ ci' = 1
    /\ error' = ""
    /\ stale' = FALSE
    /\ UNCHANGED <<current_secondary_index, current_internal_index,
                   current_external_index>>
    /\ UNCHANGED <<gvars, evars>>

MonomialNext ==
    \/ Construct
    \/ \E f \in Factors : TransformFactor(f)
    \/ ExtractIndices
    \/ Classify
    \/ Finish
    \/ Return


(***************************************************************************)
(* MonomialIndex.__call__.  An argument is a list of index values or is    *)
(* not given (None).                                                       *)
(***************************************************************************)
MaxId == 1

NotGiven == [given |-> FALSE, values |-> <<>>]
Given(values) == [given |-> TRUE, values |-> values]

\* `not primary`: the argument is None or empty.
Not(binding) == ~binding.given \/ binding.values = <<>>

MISSING_PRIMARY == "Missing index values for primary indices."
MISSING_SECONDARY == "Missing index values for secondary indices."
MISSING_INTERNAL == "Missing index values for internal auxiliary indices."
MISSING_EXTERNAL == "Missing index values for external auxiliary indices."
\* Line 93 reads self.type, which no MonomialIndex has.
ATTRIBUTE_ERROR == "AttributeError"
INDEX_ERROR == "IndexError"

NoValue == -1

\* binding[index_id]
Item(binding, index_id) ==
    IF index_id \in 0..(Len(binding.values) - 1)
    THEN [value |-> binding.values[index_id + 1], error |-> ""]
    ELSE [value |-> NoValue, error |-> INDEX_ERROR]

Lookup(binding, index_id, missing) ==
    IF Not(binding) THEN [value |-> NoValue, error |-> missing]
    ELSE Item(binding, index_id)

\* Lines 76-83 with the secondary index read from the primary values.
call_primary_for_secondary(index, primary, secondary, internal, external) ==
    IF index.index_type = FIXED THEN [value |-> index.index_range[1], error |-> ""]
    ELSE IF index.index_type \in {PRIMARY, SECONDARY}
    THEN Lookup(primary, index.index_id, MISSING_PRIMARY)
    ELSE IF index.index_type = INTERNAL
    THEN Lookup(internal, index.index_id, MISSING_INTERNAL)
    ELSE IF index.index_type = EXTERNAL
    THEN Lookup(external, index.index_id, MISSING_EXTERNAL)
    ELSE [value |-> NoValue, error |-> ATTRIBUTE_ERROR]

\* Lines 71-93: index(primary, secondary, internal, external).
call(index, primary, secondary, internal, external) ==
    IF index.index_type = FIXED THEN [value |-> index.index_range[1], error |-> ""]
    ELSE IF index.index_type = PRIMARY
    THEN Lookup(primary, index.index_id, MISSING_PRIMARY)
    ELSE IF index.index_type = SECONDARY
    THEN Lookup(secondary, index.index_id, MISSING_SECONDARY)
    ELSE IF index.index_type = INTERNAL
    THEN Lookup(internal, index.index_id, MISSING_INTERNAL)
    ELSE IF index.index_type = EXTERNAL
    THEN Lookup(external, index.index_id, MISSING_EXTERNAL)
    ELSE [value |-> NoValue, error |-> ATTRIBUTE_ERROR]

\* The indices evaluated: every role and no role, the ids a counter or a
\* basis function gives, and fixed indices as the component branch (no id)
\* and the derivative branch (the value as id) create them.
Indices ==
    { MonomialIndex(t, Range(2), id) :
        t \in {PRIMARY, SECONDARY, INTERNAL, EXTERNAL}, id \in 0..MaxId }
    \cup { MonomialIndex(NoneType, Range(2), NoneId) }
    \cup { MonomialIndex(FIXED, <<v>>, NoneId) : v \in 0..MaxId }
    \cup { MonomialIndex(FIXED, <<v>>, v) : v \in 0..MaxId }
    \cup { IndexSub(MonomialIndex(FIXED, <<1>>, NoneId), 1) }

\* The arguments: not given, empty, or one value for each id; the values of
\* the four roles differ.
Bindings(base) ==
    { NotGiven, Given(<<>>), Given([k \in 1..(MaxId + 1) |-> base + k - 1]) }

NoCall == [index |-> MonomialIndex(NoneType, <<>>, NoneId), primary |-> NotGiven,
           secondary |-> NotGiven, internal |-> NotGiven, external |-> NotGiven]

IndexInit ==
    /\ called = NoCall
    /\ result = [value |-> NoValue, error |-> "none"]

\* index(primary, secondary, internal, external)
Call(index, primary, secondary, internal, external) ==
    /\ result.error = "none"
    /\ called' = [index |-> index, primary |-> primary, secondary |-> secondary,
                  internal |-> internal, external |-> external]
    /\ result' = call(index, primary, secondary, internal, external)
    /\ UNCHANGED <<mvars, gvars>>

\* The caller has used the value or handled the exception.
EndCall ==
    /\ result.error # "none"
    /\ called' = NoCall
    /\ result' = [value |-> NoValue, error |-> "none"]
    /\ UNCHANGED <<mvars, gvars>>

IndexNext ==
    \/ \E index \in Indices, primary \in Bindings(10), secondary \in Bindings(20),
          internal \in Bindings(30), external \in Bindings(40) :
          Call(index, primary, secondary, internal, external)
    \/ EndCall

(***************************************************************************)
(* integralgenerator.py.  The target language (backend.language, L in the  *)
(* source) builds statement and expression nodes; the model keeps each     *)
(* node as a record of its constructor and arguments.                      *)
(***************************************************************************)
Comment(text, args) == [op |-> "Comment", text |-> text, args |-> args]
ArrayDecl(typename, symbol, sizes, values) ==
    [op |-> "ArrayDecl", typename |-> typename, symbol |-> symbol,
     sizes |-> sizes, values |-> values]
Scope(code) == [op |-> "Scope", body |-> code]
ForRange(index, begin, end, code) ==
    [op |-> "ForRange", index |-> index, begin |-> begin, end |-> end, body |-> code]
Assign(lhs, rhs) == [op |-> "Assign", lhs |-> lhs, rhs |-> rhs]
AssignAdd(lhs, rhs) == [op |-> "AssignAdd", lhs |-> lhs, rhs |-> rhs]
VerbatimStatement(code) == [op |-> "VerbatimStatement", code |-> code]
StatementList(statements) == [op |-> "StatementList", statements |-> statements]
LiteralFloat(value) == [op |-> "LiteralFloat", value |-> value]
Product(factors) == [op |-> "Product", factors |-> factors]
\* symbol[index]
ArrayAccess(symbol, index) == [op |-> "ArrayAccess", symbol |-> symbol, index |-> index]

\* L.commented_code_list(code, comments): the comments before the code,
\* nothing when there is no code.
commented_code_list(code, comments) ==
    IF code = <<>> THEN <<>>
    ELSE [k \in 1..Len(comments) |-> Comment(comments[k].text, comments[k].args)] \o code

\* product(shape) of ufl: 1 for the empty shape.
RECURSIVE product(_)
product(shape) == IF shape = <<>> THEN 1 ELSE Head(shape) * product(Tail(shape))

\* L.flattened_indices(indices, shape): the row-major flat index, one term
\* per axis, the axis's loop symbol times the product of the later extents.
flattened_indices(indices, shape) ==
    [i \in 1..Len(indices) |->
        [index |-> indices[i],
         stride |-> product(SubSeq(shape, i + 1, Len(shape)))]]

\* backend.symbols
weights_array(num_points) == [name |-> "weights", n |-> num_points]
points_array(num_points) == [name |-> "points", n |-> num_points]
element_tensor == [name |-> "A"]
quadrature_loop_index(num_points) == [name |-> "iq", n |-> num_points]
argument_loop_index(i) == [name |-> "ia", n |-> i]
num_quadrature_points(num_points) == num_points
\* The name of the k-th precomputed element table.
table_name(k) == [name |-> "FE", n |-> k]
\* L.Symbol("sp<num_points>"), L.Symbol("sv<num_points>")
partition_symbol(name, num_points) == [name |-> name, n |-> num_points]

\* backend.access of node i of V, and its backend.definitions statements.
access(i, num_points) == [op |-> "access", node |-> i, num_points |-> num_points]
definition(i, num_points) == [op |-> "Definition", node |-> i, num_points |-> num_points]
\* backend.access of a modified argument's table.
table_access(ma, table_range, num_points) ==
    [op |-> "table_access", ma |-> ma, table_range |-> table_range,
     num_points |-> num_points]
\* backend.ufl_to_language(v, *vops)
ufl_to_language(name, vops) == [op |-> "ufl", name |-> name, args |-> vops]

\* The exceptions that end generate().
KEY_ERROR == "KeyError"
EXPRESSION_ERROR == "Expression generation not implemented yet."

\* sorted(S) of a set of integers.
RECURSIVE Sorted(_)
Sorted(S) ==
    IF S = {} THEN <<>>
    ELSE LET m == CHOOSE x \in S : \A y \in S : x <= y
         IN  <<m>> \o Sorted(S \ {m})

\* A dofblock, a tuple of (begin, end) pairs, as the sequence of its numbers.
FlatBlock(d) == [k \in 1..(2 * Len(d)) |-> d[(k + 1) \div 2][IF k % 2 = 1 THEN 1 ELSE 2]]

\* Python's order of two tuples of the same length.
TupleLess(a, b) ==
    \E k \in 1..Len(a) : a[k] < b[k] /\ \A j \in 1..(k - 1) : a[j] = b[j]

\* sorted(S) of a set of dofblocks.
RECURSIVE SortedBlocks(_)
SortedBlocks(S) ==
    IF S = {} THEN <<>>
    ELSE LET m == CHOOSE x \in S :
                      \A y \in S : x = y \/ TupleLess(FlatBlock(x), FlatBlock(y))
         IN  <<m>> \o SortedBlocks(S \ {m})

(***************************************************************************)
(* generate_quadrature_tables.  I is the ir.                               *)
(***************************************************************************)
\* Line 129
skip == {"custom", "cutcell", "interface", "overlap", "vertex"}

\* Lines 135-158: the loop over sorted(qrs) from position k on.
RECURSIVE quadrature_tables_points_always(_, _, _)
quadrature_tables_points_always(I, keys, k) ==
    IF k > Len(keys) THEN [parts |-> <<>>, error |-> ""]
    ELSE LET num_points == keys[k]
         IN  IF num_points \notin DOMAIN I.expr_irs
             THEN [parts |-> <<>>, error |-> KEY_ERROR]
             ELSE LET expr_ir == I.expr_irs[num_points]
                      pdim == I.quadrature_rules[num_points].pdim
                      w == IF expr_ir.need_weights
                           THEN <<ArrayDecl("static const double", weights_array(num_points),
                                            <<num_points>>, TRUE)>>
                           ELSE <<>>
                      pt == IF expr_ir.need_points
                            THEN <<ArrayDecl("static const double", points_array(num_points),
                                             <<num_points * pdim>>, TRUE)>>
                            ELSE <<>>
                      rest == quadrature_tables_points_always(I, keys, k + 1)
                  IN  IF rest.error # "" THEN rest
                      ELSE [parts |-> w \o pt \o rest.parts, error |-> ""]

RECURSIVE quadrature_tables(_, _, _)
quadrature_tables(I, keys, k) ==
    IF k > Len(keys) THEN [parts |-> <<>>, error |-> ""]
    ELSE LET num_points == keys[k]
         IN  IF num_points \notin DOMAIN I.expr_irs
             THEN [parts |-> <<>>, error |-> KEY_ERROR]
             ELSE LET expr_ir == I.expr_irs[num_points]
                      pdim == I.quadrature_rules[num_points].pdim
                      w == IF expr_ir.need_weights
                           THEN <<ArrayDecl("static const double", weights_array(num_points),
                                            <<num_points>>, TRUE)>>
                           ELSE <<>>
                      pt == IF pdim # 0 /\ expr_ir.need_points
                            THEN <<ArrayDecl("static const double", points_array(num_points),
                                             <<num_points * pdim>>, TRUE)>>
                            ELSE <<>>
                      rest == quadrature_tables(I, keys, k + 1)
                  IN  IF rest.error # "" THEN rest
                      ELSE [parts |-> w \o pt \o rest.parts, error |-> ""]

generate_quadrature_tables(I) ==
    IF I.integral_type \in skip THEN [parts |-> <<>>, error |-> ""]
    ELSE LET r == quadrature_tables(I, Sorted(DOMAIN I.quadrature_rules), 1)
         IN  IF r.error # "" THEN r
             ELSE [parts |-> commented_code_list(r.parts,
                       <<[text |-> "Section for quadrature weights and points",
                          args |-> <<>>]>>),
                   error |-> ""]

(***************************************************************************)
(* generate_element_tables.                                                *)
(***************************************************************************)
\* Lines 173-185: the loop over sorted(expr_irs) from position k on.
RECURSIVE element_tables(_, _, _)
element_tables(I, keys, k) ==
    IF k > Len(keys) THEN <<>>
    ELSE LET num_points == keys[k]
             tables == I.expr_irs[num_points].unique_tables
             names == Sorted(DOMAIN tables)
         IN  (IF names = <<>> THEN <<>>
              ELSE <<Comment("Definitions of {0} tables for {1} quadrature points",
                             <<Len(names), num_points>>)>>
                   \o [j \in 1..Len(names) |->
                          ArrayDecl("static const double", table_name(names[j]),
                                    tables[names[j]], TRUE)])
             \o element_tables(I, keys, k + 1)

generate_element_tables(I) ==
    commented_code_list(element_tables(I, Sorted(DOMAIN I.expr_irs), 1),
        <<[text |-> "Section for precomputed element basis function values",
           args |-> <<>>],
          [text |-> "Table dimensions: num_entities, num_points, num_dofs",
           args |-> <<>>]>>)

(***************************************************************************)
(* generate_tensor_reset.                                                  *)
(***************************************************************************)
\* memzero(ptrname, size) of lines 198-201
memzero(ptrname, size) ==
    VerbatimStatement([fn |-> "memset", ptrname |-> ptrname, value |-> 0, size |-> size])

generate_tensor_reset_memset_always(I) ==
    <<Comment("Reset element tensor", <<>>),
      memzero(element_tensor, product(I.tensor_shape))>>

generate_tensor_reset(I) ==
    LET A == element_tensor
        A_size == product(I.tensor_shape)
    IN  <<Comment("Reset element tensor", <<>>)>>
        \o (IF A_size = 1
            THEN <<Assign(ArrayAccess(A, 0), LiteralFloat(0))>>
            ELSE <<memzero(A, A_size)>>)

(***************************************************************************)
(* generate_partition and generate_unstructured_partition.                 *)
(***************************************************************************)
\* vaccesses[v] = vaccess
MemoPut(memo, i, vaccess) ==
    [x \in (DOMAIN memo) \cup {i} |-> IF x = i THEN vaccess ELSE memo[x]]

\* Lines 334-383 with line 383 skipped for an inlined condition.
RECURSIVE partition_nodes_conditions_unmemoized(_, _, _, _, _, _)
partition_nodes_conditions_unmemoized(symbol, V, partition, num_points, i, acc) ==
    IF i > Len(V) \/ acc.error # "" THEN acc
    ELSE IF ~partition[i]
    THEN partition_nodes_conditions_unmemoized(symbol, V, partition, num_points, i + 1, acc)
    ELSE LET v == V[i]
         IN  IF v.type = "terminal"
             THEN partition_nodes_conditions_unmemoized(symbol, V, partition, num_points, i + 1,
                      [acc EXCEPT !.definitions =
                                      @ \o [k \in 1..v.ndefs |-> definition(i, num_points)],
                                  !.vaccesses = MemoPut(@, i, access(i, num_points))])
             ELSE IF \E k \in 1..Len(v.operands) : v.operands[k] \notin DOMAIN acc.vaccesses
             THEN [acc EXCEPT !.error = KEY_ERROR]
             ELSE LET vops == [k \in 1..Len(v.operands) |-> acc.vaccesses[v.operands[k]]]
                      vexpr == ufl_to_language(v.name, vops)
                      j == Len(acc.intermediates)
                      vaccess == ArrayAccess(symbol, j)
                  IN  partition_nodes_conditions_unmemoized(symbol, V, partition, num_points, i + 1,
                          [acc EXCEPT !.ufl_names = @ \cup {v.name},
                                      !.intermediates =
                                          IF v.type = "condition" THEN @
                                          ELSE Append(@, Assign(vaccess, vexpr)),
                                      !.vaccesses =
                                          IF v.type = "condition" THEN @
                                          ELSE MemoPut(@, i, vaccess)])

\* Lines 334-383 with j = len(intermediates) for a condition too.
RECURSIVE partition_nodes_conditions_stored(_, _, _, _, _, _)
partition_nodes_conditions_stored(symbol, V, partition, num_points, i, acc) ==
    IF i > Len(V) \/ acc.error # "" THEN acc
    ELSE IF ~partition[i]
    THEN partition_nodes_conditions_stored(symbol, V, partition, num_points, i + 1, acc)
    ELSE LET v == V[i]
         IN  IF v.type = "terminal"
             THEN partition_nodes_conditions_stored(symbol, V, partition, num_points, i + 1,
                      [acc EXCEPT !.definitions =
                                      @ \o [k \in 1..v.ndefs |-> definition(i, num_points)],
                                  !.vaccesses = MemoPut(@, i, access(i, num_points))])
             ELSE IF \E k \in 1..Len(v.operands) : v.operands[k] \notin DOMAIN acc.vaccesses
             THEN [acc EXCEPT !.error = KEY_ERROR]
             ELSE LET vops == [k \in 1..Len(v.operands) |-> acc.vaccesses[v.operands[k]]]
                      vexpr == ufl_to_language(v.name, vops)
                      j == Len(acc.intermediates)
                      vaccess == ArrayAccess(symbol, j)
                  IN  partition_nodes_conditions_stored(symbol, V, partition, num_points, i + 1,
                          [acc EXCEPT !.ufl_names = @ \cup {v.name},
                                      !.intermediates = Append(@, Assign(vaccess, vexpr)),
                                      !.vaccesses = MemoPut(@, i, vaccess)])

\* Lines 334-383: the loop over the nodes of V from position i on.  acc holds
\* definitions, intermediates, the memo of this point count, _ufl_names and
\* the exception raised, if any.
RECURSIVE partition_nodes(_, _, _, _, _, _)
partition_nodes(symbol, V, partition, num_points, i, acc) ==
    IF i > Len(V) \/ acc.error # "" THEN acc
    ELSE IF ~partition[i] THEN partition_nodes(symbol, V, partition, num_points, i + 1, acc)
    ELSE LET v == V[i]
         IN  IF v.type = "terminal"
             THEN partition_nodes(symbol, V, partition, num_points, i + 1,
                      [acc EXCEPT !.definitions =
                                      @ \o [k \in 1..v.ndefs |-> definition(i, num_points)],
                                  !.vaccesses = MemoPut(@, i, access(i, num_points))])
             ELSE IF \E k \in 1..Len(v.operands) : v.operands[k] \notin DOMAIN acc.vaccesses
             THEN [acc EXCEPT !.error = KEY_ERROR]
             ELSE LET vops == [k \in 1..Len(v.operands) |-> acc.vaccesses[v.operands[k]]]
                      vexpr == ufl_to_language(v.name, vops)
                      j == Len(acc.intermediates)
                      vaccess == IF v.type = "condition" THEN vexpr
                                 ELSE ArrayAccess(symbol, j)
                  IN  partition_nodes(symbol, V, partition, num_points, i + 1,
                          [acc EXCEPT !.ufl_names = @ \cup {v.name},
                                      !.intermediates =
                                          IF v.type = "condition" THEN @
                                          ELSE Append(@, Assign(vaccess, vexpr)),
                                      !.vaccesses = MemoPut(@, i, vaccess)])

\* generate_partition: the statements, the memo and _ufl_names after it.
generate_partition(symbol, V, partition, num_points, memo, names) ==
    LET acc == partition_nodes(symbol, V, partition, num_points, 1,
                   [definitions |-> <<>>, intermediates |-> <<>>, vaccesses |-> memo,
                    ufl_names |-> names, error |-> ""])
    IN  [parts |-> acc.definitions
                   \o (IF acc.intermediates = <<>> THEN <<>>
                       ELSE <<ArrayDecl("double", symbol, <<Len(acc.intermediates)>>, FALSE)>>
                            \o acc.intermediates),
         vaccesses |-> acc.vaccesses, ufl_names |-> acc.ufl_names, error |-> acc.error]

generate_unstructured_partition(I, num_points, partition, memo, names) ==
    LET expr_ir == I.expr_irs[num_points]
        name == IF partition = "piecewise" THEN "sp" ELSE "sv"
        r == generate_partition(partition_symbol(name, num_points), expr_ir.V,
                                expr_ir[partition], num_points, memo, names)
    IN  [r EXCEPT !.parts = commented_code_list(@,
                      <<[text |-> "Unstructured %s computations",
                         args |-> <<partition>>]>>)]

(***************************************************************************)
(* generate_dofblock_partition.                                            *)
(***************************************************************************)
\* Lines 313-316 with the loop of line 312 instead: axis 0 wrapped first.
RECURSIVE loop_nest_up(_, _, _, _, _)
loop_nest_up(code, A_indices, ttypes, dofblock, i) ==
    IF i > Len(ttypes) THEN code
    ELSE loop_nest_up(IF ttypes[i] # "quadrature"
                      THEN ForRange(A_indices[i], dofblock[i][1], dofblock[i][2], code)
                      ELSE code,
                      A_indices, ttypes, dofblock, i + 1)

loop_nest_ascending(code, A_indices, ttypes, dofblock, i) ==
    loop_nest_up(code, A_indices, ttypes, dofblock, 1)

\* Lines 313-316: the axes from i down to the first (axis 0 of the source is
\* axis 1 here), each non-quadrature axis wrapping what is built so far.
RECURSIVE loop_nest(_, _, _, _, _)
loop_nest(code, A_indices, ttypes, dofblock, i) ==
    IF i = 0 THEN code
    ELSE loop_nest(IF ttypes[i] # "quadrature"
                   THEN ForRange(A_indices[i], dofblock[i][1], dofblock[i][2], code)
                   ELSE code,
                   A_indices, ttypes, dofblock, i - 1)

\* Lines 266-319 with the factor of line 274 appended whatever its value.
contribution_one_kept(I, num_points, dofblock, data, memo) ==
    LET expr_ir == I.expr_irs[num_points]
        rank == Len(data.unames)
        A_indices == [i \in 1..rank |->
                         IF data.ttypes[i] = "quadrature"
                         THEN quadrature_loop_index(num_points)
                         ELSE argument_loop_index(i - 1)]
        tabled == SelectSeq([i \in 1..rank |-> i],
                            LAMBDA i : data.ttypes[i] \notin {"quadrature", "ones"})
        factors == <<memo[data.factor_index]>>
                   \o [k \in 1..Len(tabled) |->
                          table_access(data.ma_indices[tabled[k]],
                                       data.table_ranges[tabled[k]], num_points)]
        term == Product(factors)
        flat_index == flattened_indices(A_indices, I.tensor_shape)
        accumulate == AssignAdd(ArrayAccess(element_tensor, flat_index), term)
    IN  IF data.factor_index \notin DOMAIN memo
        THEN [parts |-> <<>>, error |-> KEY_ERROR]
        ELSE [parts |-> <<loop_nest(accumulate, A_indices, data.ttypes, dofblock, rank)>>,
              error |-> ""]

\* Lines 266-319: the statement of one contribution.
contribution(I, num_points, dofblock, data, memo) ==
    LET expr_ir == I.expr_irs[num_points]
        rank == Len(data.unames)
        v == expr_ir.V[data.factor_index]
        A_indices == [i \in 1..rank |->
                         IF data.ttypes[i] = "quadrature"
                         THEN quadrature_loop_index(num_points)
                         ELSE argument_loop_index(i - 1)]
        tabled == SelectSeq([i \in 1..rank |-> i],
                            LAMBDA i : data.ttypes[i] \notin {"quadrature", "ones"})
        factors == (IF v.one THEN <<>> ELSE <<memo[data.factor_index]>>)
                   \o [k \in 1..Len(tabled) |->
                          table_access(data.ma_indices[tabled[k]],
                                       data.table_ranges[tabled[k]], num_points)]
        term == IF factors # <<>> THEN Product(factors) ELSE LiteralFloat(1)
        flat_index == flattened_indices(A_indices, I.tensor_shape)
        accumulate == AssignAdd(ArrayAccess(element_tensor, flat_index), term)
    IN  IF ~v.one /\ data.factor_index \notin DOMAIN memo
        THEN [parts |-> <<>>, error |-> KEY_ERROR]
        ELSE [parts |-> <<loop_nest(accumulate, A_indices, data.ttypes, dofblock, rank)>>,
              error |-> ""]

\* Lines 264-319: the contributions of the dofblocks from (b, c) on.
RECURSIVE dofblocks(_, _, _, _, _, _, _)
dofblocks(I, num_points, blocks, keys, b, c, memo) ==
    IF b > Len(keys) THEN [parts |-> <<>>, error |-> ""]
    ELSE IF c > Len(blocks[keys[b]])
    THEN dofblocks(I, num_points, blocks, keys, b + 1, 1, memo)
    ELSE LET one == contribution(I, num_points, keys[b], blocks[keys[b]][c], memo)
         IN  IF one.error # "" THEN one
             ELSE LET rest == dofblocks(I, num_points, blocks, keys, b, c + 1, memo)
                  IN  IF rest.error # "" THEN rest
                      ELSE [parts |-> one.parts \o rest.parts, error |-> ""]

generate_dofblock_partition(I, num_points, partition, memo) ==
    LET blocks == I.expr_irs[num_points].block_contributions[partition]
    IN  dofblocks(I, num_points, blocks, SortedBlocks(DOMAIN blocks), 1, 1, memo)

(***************************************************************************)
(* generate_quadrature_loops and generate_finishing_statements.            *)
(***************************************************************************)
\* Lines 230-239
wrap_always_loop(code, num_points) ==
    IF code = <<>> THEN <<>>
    ELSE <<ForRange(quadrature_loop_index(num_points), 0,
                    num_quadrature_points(num_points), code)>>

wrap(code, num_points) ==
    IF code = <<>> THEN <<>>
    ELSE IF num_points = 1
    THEN commented_code_list(<<Scope(code)>>,
             <<[text |-> "Only 1 quadrature point, no loop", args |-> <<>>]>>)
    ELSE <<ForRange(quadrature_loop_index(num_points), 0,
                    num_quadrature_points(num_points), code)>>

\* Lines 222-227 with the dofblocks put before the partition's statements.
generate_quadrature_loops_dofblocks_first(I, num_points, memo, names) ==
    LET u == generate_unstructured_partition(I, num_points, "varying", memo, names)
        setup == commented_code_list(u.parts,
                     <<[text |-> "Quadrature loop body setup (num_points={0})",
                        args |-> <<num_points>>]>>)
        d == generate_dofblock_partition(I, num_points, "varying", u.vaccesses)
    IN  IF u.error # "" THEN [u EXCEPT !.parts = <<>>]
        ELSE [parts |-> IF d.error # "" THEN <<>> ELSE wrap(d.parts \o setup, num_points),
              vaccesses |-> u.vaccesses, ufl_names |-> u.ufl_names, error |-> d.error]

generate_quadrature_loops(I, num_points, memo, names) ==
    LET u == generate_unstructured_partition(I, num_points, "varying", memo, names)
        setup == commented_code_list(u.parts,
                     <<[text |-> "Quadrature loop body setup (num_points={0})",
                        args |-> <<num_points>>]>>)
        d == generate_dofblock_partition(I, num_points, "varying", u.vaccesses)
    IN  IF u.error # "" THEN [u EXCEPT !.parts = <<>>]
        ELSE [parts |-> IF d.error # "" THEN <<>> ELSE wrap(setup \o d.parts, num_points),
              vaccesses |-> u.vaccesses, ufl_names |-> u.ufl_names, error |-> d.error]

\* Lines 421-423 without the error.
generate_finishing_statements_no_error(I) == [parts |-> <<>>, error |-> ""]

generate_finishing_statements(I) ==
    IF I.integral_type = "expression"
    THEN [parts |-> <<>>, error |-> EXPRESSION_ERROR]
    ELSE [parts |-> <<>>, error |-> ""]

(***************************************************************************)
(* The intermediate representations generate() is run on.  An ir has an    *)
(* integral_type, a tensor_shape, quadrature_rules and expr_irs, both      *)
(* keyed by point count.  A rule is kept as the dimension of its points.   *)
(* A node of V is a modified terminal (with the number of statements the   *)
(* backend's definitions() gives for it; one marks the literal 1.0) or an  *)
(* operator over earlier nodes; a condition is an operator of the class    *)
(* Condition.                                                              *)
(***************************************************************************)
MaxPoints == 2
MaxTables == 2
MaxRank == 2
MaxDim == 2

PointCounts == 1..MaxPoints

IntegralTypes == {"cell", "exterior_facet", "expression"} \cup skip

Terminal(ndefs) ==
    [type |-> "terminal", name |-> "terminal", operands |-> <<>>, ndefs |-> ndefs,
     one |-> FALSE]
One == [type |-> "terminal", name |-> "float_value", operands |-> <<>>, ndefs |-> 0,
        one |-> TRUE]
Operator(name, operands) ==
    [type |-> "operator", name |-> name, operands |-> operands, ndefs |-> 0,
     one |-> FALSE]
Condition(name, operands) ==
    [type |-> "condition", name |-> name, operands |-> operands, ndefs |-> 0,
     one |-> FALSE]

\* One expression graph in topological order.
Graph ==
    <<Terminal(1), One, Terminal(0), Operator("sum", <<1, 3>>),
      Condition("lt", <<1, 4>>), Operator("conditional", <<5, 4, 1>>)>>

\* The ways its nodes are flagged active: nothing, all piecewise, piecewise
\* with a varying tail, all varying, an operator without its operands, nodes
\* that only emit nothing.
Splits ==
    { [piecewise |-> {}, varying |-> {}],
      [piecewise |-> 1..6, varying |-> {}],
      [piecewise |-> 1..4, varying |-> {5, 6}],
      [piecewise |-> {}, varying |-> 1..6],
      [piecewise |-> {4}, varying |-> {}],
      [piecewise |-> {1}, varying |-> {3}],
      [piecewise |-> {1, 3, 4}, varying |-> {5}] }

Flags(V, active) == [i \in 1..Len(V) |-> i \in active]

NoBlocks == [piecewise |-> <<>>, varying |-> <<>>]

ExprIR(need_weights, need_points, unique_tables, V, piecewise, varying, blocks) ==
    [need_weights |-> need_weights, need_points |-> need_points,
     unique_tables |-> unique_tables, V |-> V,
     piecewise |-> Flags(V, piecewise), varying |-> Flags(V, varying),
     block_contributions |-> blocks]

IR(integral_type, tensor_shape, quadrature_rules, expr_irs) ==
    [integral_type |-> integral_type, tensor_shape |-> tensor_shape,
     quadrature_rules |-> quadrature_rules, expr_irs |-> expr_irs]

\* count tables of num_points, each of shape (1, num_points, 3).
Tables(num_points, count) ==
    [k \in {10 * num_points + j : j \in 1..count} |-> <<1, num_points, 3>>]

Rules(keys, pdim) == [n \in keys |-> [pdim |-> pdim]]

\* Every integral type, rules and expression irs for any point counts.
KindIRs ==
    { IR(t, <<>>, Rules(qk, 2),
         [n \in ek |-> ExprIR(TRUE, TRUE, Tables(n, 1), <<>>, {}, {}, NoBlocks)]) :
        t \in IntegralTypes, qk \in SUBSET PointCounts, ek \in SUBSET PointCounts }

\* What the expression irs need, and how many tables they have.
FlagIRs ==
    { IR("cell", <<>>, Rules(k, pdim),
         [n \in k |-> ExprIR(nw, np, Tables(n, c), <<>>, {}, {}, NoBlocks)]) :
        k \in SUBSET PointCounts, nw \in BOOLEAN, np \in BOOLEAN, pdim \in {0, 2},
        c \in 0..MaxTables }

\* A contribution to a scalar tensor with the factor V[factor_index].
ScalarData(factor_index) ==
    [ma_indices |-> <<>>, factor_index |-> factor_index, table_ranges |-> <<>>,
     unames |-> <<>>, ttypes |-> <<>>]

ScalarBlocks ==
    { NoBlocks,
      [piecewise |-> [d \in {<<>>} |-> <<ScalarData(4)>>],
       varying |-> [d \in {<<>>} |-> <<ScalarData(6), ScalarData(2)>>]] }

\* The graph, split per point count, with and without contributions.
LoopIRs ==
    UNION { { IR("cell", <<>>, Rules(k, 2),
                 [n \in k |-> ExprIR(TRUE, FALSE, Tables(n, 1), Graph,
                                     split[n].piecewise, split[n].varying, b)]) :
                split \in [k -> Splits], b \in ScalarBlocks } :
            k \in SUBSET PointCounts }

\* The tensor of rank r used for the dofblocks: extents 2, 3, ...
ShapeOfRank(r) == [i \in 1..r |-> i + 1]

TTypes == {"quadrature", "ones", "full"}

Data(factor_index, ttypes) ==
    [ma_indices |-> [i \in 1..Len(ttypes) |-> i - 1],
     factor_index |-> factor_index,
     table_ranges |-> [i \in 1..Len(ttypes) |-> <<0, 1>>],
     unames |-> [i \in 1..Len(ttypes) |-> table_name(i)],
     ttypes |-> ttypes]

\* One dofblock over the whole tensor and, for shape "second", one more; one
\* contribution, for shape "dup" two with the same roles.
Blocks(r, factor_index, ttypes, shape) ==
    LET whole == [i \in 1..r |-> <<0, i + 1>>]
        upper == [i \in 1..r |-> <<0, 1>>]
    IN  [d \in (IF shape = "second" THEN {whole, upper} ELSE {whole}) |->
            IF d = whole /\ shape = "dup"
            THEN <<Data(factor_index, ttypes), Data(3 - factor_index, ttypes)>>
            ELSE <<Data(factor_index, ttypes)>>]

BlockIRs ==
    UNION { { IR("cell", ShapeOfRank(r), Rules({n}, 2),
                 [m \in {n} |->
                     ExprIR(TRUE, FALSE, Tables(n, 1), <<Terminal(1), One>>, {1, 2}, {},
                            [piecewise |-> IF p = "piecewise"
                                           THEN Blocks(r, f, tt, shape) ELSE <<>>,
                             varying |-> IF p = "varying"
                                         THEN Blocks(r, f, tt, shape) ELSE <<>>])]) :
                n \in PointCounts, tt \in [1..r -> TTypes], f \in {1, 2},
                shape \in {"one", "dup", "second"}, p \in {"piecewise", "varying"} } :
            r \in 0..MaxRank }

\* Tensor shapes of every rank and extent, nothing else.
ResetIRs ==
    UNION { { IR("cell", shape, Rules({1}, 2),
                 [n \in {1} |-> ExprIR(TRUE, FALSE, Tables(n, 0), <<>>, {}, {}, NoBlocks)]) :
                shape \in [1..r -> 0..MaxDim] } :
            r \in 0..MaxRank }

\* Expression evaluation with a graph and contributions.
ExpressionIRs ==
    { IR("expression", <<>>, Rules({n}, 2),
         [m \in {n} |-> ExprIR(TRUE, FALSE, Tables(n, 1), Graph,
                               split.piecewise, split.varying, b)]) :
        n \in PointCounts, split \in Splits, b \in ScalarBlocks }

IRs == KindIRs \cup FlagIRs \cup LoopIRs \cup BlockIRs \cup ResetIRs \cup ExpressionIRs

(***************************************************************************)
(* The generator as a state machine.                                       *)
(***************************************************************************)
NoIR == IR("none", <<>>, <<>>, <<>>)

IntegralInit ==
    /\ ir = NoIR
    /\ ufl_names = {}
    /\ vaccesses = <<>>
    /\ parts = <<>>
    /\ body = <<>>
    /\ all_num_points = <<>>
    /\ qi = 1
    /\ gpc = "none"
    /\ gerror = ""

Init == MonomialInit /\ IntegralInit /\ IndexInit

\* Lines 31-44: IntegralGenerator(ir, backend).
NewGenerator(I) ==
    /\ gpc = "none"
    /\ ir' = I
    /\ ufl_names' = {}
    /\ gpc' = "new"
    /\ UNCHANGED <<vaccesses, parts, body, all_num_points, qi, gerror>>
    /\ UNCHANGED <<mvars, evars>>

\* generate() ended with the exception e.
Raise(e) ==
    /\ gpc' = "raised"
    /\ gerror' = e

\* Lines 84-87: generate() is called, on a new generator or again on one
\* whose generate() has ended, and makes the quadrature tables.
QuadratureTables ==
    /\ gpc \in {"new", "returned", "raised"}
    /\ body' = <<>>
    /\ all_num_points' = <<>>
    /\ qi' = 1
    /\ LET r == generate_quadrature_tables(ir)
       IN  /\ parts' = r.parts
           /\ IF r.error # "" THEN Raise(r.error)
              ELSE gpc' = "element_tables" /\ gerror' = ""
    /\ UNCHANGED <<ir, ufl_names, vaccesses>>
    /\ UNCHANGED <<mvars, evars>>

\* Line 88
ElementTables ==
    /\ gpc = "element_tables"
    /\ parts' = parts \o generate_element_tables(ir)
    /\ gpc' = "tensor_reset"
    /\ UNCHANGED <<ir, ufl_names, vaccesses, body, all_num_points, qi, gerror>>
    /\ UNCHANGED <<mvars, evars>>

\* Line 89
TensorReset ==
    /\ gpc = "tensor_reset"
    /\ parts' = parts \o generate_tensor_reset(ir)
    /\ gpc' = "accesses"
    /\ UNCHANGED <<ir, ufl_names, vaccesses, body, all_num_points, qi, gerror>>
    /\ UNCHANGED <<mvars, evars>>

\* Lines 95-99
\* Lines 95-99 with the memo of an earlier call of generate() kept.
ResetAccesses_kept ==
    /\ gpc = "accesses"
    /\ all_num_points' = Sorted(DOMAIN ir.expr_irs)
    /\ vaccesses' = [num_points \in DOMAIN ir.expr_irs |->
                        IF num_points \in DOMAIN vaccesses THEN vaccesses[num_points]
                        ELSE <<>>]
    /\ qi' = 1
    /\ gpc' = "loop"
    /\ UNCHANGED <<ir, ufl_names, parts, body, gerror>>
    /\ UNCHANGED <<mvars, evars>>

ResetAccesses ==
    /\ gpc = "accesses"
    /\ all_num_points' = Sorted(DOMAIN ir.expr_irs)
    /\ vaccesses' = [num_points \in DOMAIN ir.expr_irs |-> <<>>]
    /\ qi' = 1
    /\ gpc' = "loop"
    /\ UNCHANGED <<ir, ufl_names, parts, body, gerror>>
    /\ UNCHANGED <<mvars, evars>>

\* Lines 101-103: the next point count; its piecewise partition.
PiecewisePartition ==
    /\ gpc = "loop"
    /\ qi <= Len(all_num_points)
    /\ LET num_points == all_num_points[qi]
           r == generate_unstructured_partition(ir, num_points, "piecewise",
                                                vaccesses[num_points], ufl_names)
       IN  /\ body' = r.parts
           /\ vaccesses' = [vaccesses EXCEPT ![num_points] = r.vaccesses]
           /\ ufl_names' = r.ufl_names
           /\ IF r.error # "" THEN Raise(r.error)
              ELSE gpc' = "dofblocks" /\ UNCHANGED gerror
    /\ UNCHANGED <<ir, parts, all_num_points, qi>>
    /\ UNCHANGED <<mvars, evars>>

\* Line 104
PiecewiseDofblocks ==
    /\ gpc = "dofblocks"
    /\ LET num_points == all_num_points[qi]
           r == generate_dofblock_partition(ir, num_points, "piecewise",
                                            vaccesses[num_points])
       IN  /\ body' = body \o r.parts
           /\ IF r.error # "" THEN Raise(r.error)
              ELSE gpc' = "quadrature_loops" /\ UNCHANGED gerror
    /\ UNCHANGED <<ir, ufl_names, vaccesses, parts, all_num_points, qi>>
    /\ UNCHANGED <<mvars, evars>>

\* Lines 105-114: the quadrature loops; the body joins parts.
QuadratureLoops ==
    /\ gpc = "quadrature_loops"
    /\ LET num_points == all_num_points[qi]
           r == generate_quadrature_loops(ir, num_points, vaccesses[num_points],
                                          ufl_names)
       IN  /\ vaccesses' = [vaccesses EXCEPT ![num_points] = r.vaccesses]
           /\ ufl_names' = r.ufl_names
           /\ IF r.error # ""
              THEN Raise(r.error) /\ UNCHANGED <<body, parts, qi>>
              ELSE /\ body' = body \o r.parts
                   /\ parts' = IF Len(all_num_points) > 1
                               THEN Append(parts, Scope(body'))
                               ELSE parts \o body'
                   /\ qi' = qi + 1
                   /\ gpc' = "loop"
                   /\ UNCHANGED gerror
    /\ UNCHANGED <<ir, all_num_points>>
    /\ UNCHANGED <<mvars, evars>>

\* Lines 116-118: the loop is over; the finishing statements; the return.
Finishing ==
    /\ gpc = "loop"
    /\ qi > Len(all_num_points)
    /\ LET r == generate_finishing_statements(ir)
       IN  /\ parts' = parts \o r.parts
           /\ IF r.error # "" THEN Raise(r.error)
              ELSE gpc' = "returned" /\ UNCHANGED gerror
    /\ UNCHANGED <<ir, ufl_names, vaccesses, body, all_num_points, qi>>
    /\ UNCHANGED <<mvars, evars>>

\* The generator is dropped.
Discard ==
    /\ gpc \in {"returned", "raised"}
    /\ ir' = NoIR
    /\ ufl_names' = {}
    /\ vaccesses' = <<>>
    /\ parts' = <<>>
    /\ body' = <<>>
    /\ all_num_points' = <<>>
    /\ qi' = 1
    /\ gpc' = "none"
    /\ gerror' = ""
    /\ UNCHANGED <<mvars, evars>>

IntegralNext ==
    \/ \E I \in IRs : NewGenerator(I)
    \/ QuadratureTables
    \/ ElementTables
    \/ TensorReset
    \/ ResetAccesses
    \/ PiecewisePartition
    \/ PiecewiseDofblocks
    \/ QuadratureLoops
    \/ Finishing
    \/ Discard

MonomialSpec == Init /\ [][MonomialNext]_vars

IntegralSpec == Init /\ [][IntegralNext]_vars

IndexSpec == Init /\ [][IndexNext]_vars

(***************************************************************************)
(* Properties of the monomial transformation (MonomialSpec).               *)
(***************************************************************************)
\* The footprints of the monomial as it stands, of every role: the indices
\* inside the integral and those outside it, with repetitions.
InternalFootprint == basis_function_indices(self.basis_functions, 1)

ExternalFootprint ==
    [k \in 1..Len(self.coefficients) |-> self.coefficients[k].index]
    \o [k \in 1..Len(self.transforms) |-> self.transforms[k].index0]
    \o [k \in 1..Len(self.transforms) |-> self.transforms[k].index1]

UsedIndices == Elems(InternalFootprint) \cup Elems(ExternalFootprint)

\* The pair of occurrence counts of index i in the footprints int and ext.
CountPair(int, ext, i) == <<Count(int, i), Count(ext, i)>>

\* The role the three patterns give, "" for every other pair.
RoleOfPair(p) ==
    CASE p = <<1, 1>> -> SECONDARY
      [] p = <<2, 0>> -> INTERNAL
      [] p = <<0, 2>> -> EXTERNAL
      [] OTHER -> ""

\* The construction reached the classification loop.
InClassification ==
    \/ pc \in {"classify", "done"}
    \/ pc = "failed" /\ error = CONTRACTION_ERROR

\* C1: the indices left untyped by the factors are exactly those the loop
\* runs over; each one the loop has passed has the role its count pair
\* gives, (1,1) SECONDARY, (2,0) INTERNAL, (0,2) EXTERNAL; the construction
\* fails with the contraction error exactly at an index whose pair is none
\* of the three, which stays untyped; and a finished construction has
\* classified every one of them.
C1_RoleFromCounts ==
    InClassification =>
      LET int == InternalFootprint
          ext == ExternalFootprint
          counted == Elems(todo)
          failing == IF pc = "failed" THEN ci - 1 ELSE 0
      IN
        /\ \A i \in Elems(int) \cup Elems(ext) :
               (i \notin counted) => heap[i].index_type \in {FIXED, PRIMARY}
        /\ \A i \in counted :
               heap[i].index_type \in {NoneType, RoleOfPair(CountPair(int, ext, i))}
        /\ \A k \in 1..(ci - 1) :
               LET i == todo[k]
                   role == RoleOfPair(CountPair(int, ext, i))
               IN  IF k = failing
                   THEN role = "" /\ heap[i].index_type = NoneType
                   ELSE role # "" /\ heap[i].index_type = role
        /\ pc = "done" => ci = Len(todo) + 1

\* C1, witness: a finished construction with an index of each of the three
\* roles.
C1_Witness ==
    /\ pc = "done"
    /\ \A role \in {SECONDARY, INTERNAL, EXTERNAL} :
           \E i \in UsedIndices : heap[i].index_type = role

\* C2, as claimed: in a finished construction every non-fixed index that is
\* used, PRIMARY ones included, has one of the three count pairs.
C2_EveryNonFixedPair ==
    pc = "done" =>
        \A i \in UsedIndices :
            heap[i].index_type # FIXED
                => CountPair(InternalFootprint, ExternalFootprint, i)
                       \in {<<1, 1>>, <<2, 0>>, <<0, 2>>}

\* C2, amended: in a finished construction every used index is FIXED,
\* PRIMARY or of one of the three summation roles; a summation index has
\* the count pair of its role; a PRIMARY index, typed when it is created
\* and never counted, has the pair (1,0).  A construction that failed with
\* the contraction error has an untyped index with another pair.
C2_SummationIndexPair ==
    LET int == InternalFootprint
        ext == ExternalFootprint
    IN
    /\ pc = "done" =>
           \A i \in Elems(int) \cup Elems(ext) :
               /\ heap[i].index_type \in {FIXED, PRIMARY, SECONDARY, INTERNAL, EXTERNAL}
               /\ heap[i].index_type \in {SECONDARY, INTERNAL, EXTERNAL}
                      => RoleOfPair(CountPair(int, ext, i)) = heap[i].index_type
               /\ heap[i].index_type = PRIMARY => CountPair(int, ext, i) = <<1, 0>>
    /\ (pc = "failed" /\ error = CONTRACTION_ERROR) =>
           \E i \in Elems(int) \cup Elems(ext) :
               /\ heap[i].index_type = NoneType
               /\ CountPair(int, ext, i) \notin {<<1, 1>>, <<2, 0>>, <<0, 2>>}

\* C2, witness: a finished construction that uses a PRIMARY index and a
\* summation index.
C2_Witness ==
    /\ pc = "done"
    /\ \E i \in UsedIndices : heap[i].index_type = PRIMARY
    /\ \E i \in UsedIndices : heap[i].index_type = INTERNAL

\* The factor maps its one component through a contravariant Piola
\* sub-element: the sub-element is that of the first value of the resolved
\* component's range, the literal itself or 0 for a free index.
Contravariant(f) ==
    /\ Len(f.components) = 1
    /\ LET c == f.components[1]
       IN  component_element(f.element, IF c.fixed THEN c.v ELSE 0).mapping
               = CONTRAVARIANT_PIOLA

\* C3: while the factors are processed and after a successful construction
\* the determinant power is minus the number of contravariant factors read
\* so far.
C3_DeterminantPower ==
    pc \in {"factors", "classify", "done"} =>
        self.determinant.power
            = 0 - Cardinality({k \in 1..Len(monomial) : Contravariant(monomial[k])})

\* C3, witness: two contravariant factors and a covariant one, power -2.
C3_Witness ==
    /\ pc = "done"
    /\ self.determinant.power = 0 - 2
    /\ \E k \in 1..Len(monomial) : monomial[k].element = "ND"

\* The factor at position k has one literal component in an affine
\* sub-element, so its recorded component is the resolved instance itself.
AffineLiteral(k) ==
    /\ Len(monomial[k].components) = 1
    /\ monomial[k].components[1].fixed
    /\ component_element(monomial[k].element, monomial[k].components[1].v).mapping
           = AFFINE

\* C4, as claimed: two occurrences of a literal component with the same
\* value in different factors are resolved to distinct instances.
C4_EqualLiteralsDistinct ==
    pc = "done" =>
        \A k1, k2 \in 1..Len(monomial) :
            (/\ k1 < k2
             /\ AffineLiteral(k1) /\ AffineLiteral(k2)
             /\ monomial[k1].components[1].v = monomial[k2].components[1].v)
                => self.basis_functions[k1].components[1]
                       # self.basis_functions[k2].components[1]

\* The instances the transform edges hold as endpoints, with repetitions.
TransformEndpoints ==
    [k \in 1..Len(self.transforms) |-> self.transforms[k].index0]
    \o [k \in 1..Len(self.transforms) |-> self.transforms[k].index1]

\* C4, amended: index_map is keyed by the literal's value, so a literal met
\* again resolves to the FIXED instance of its first occurrence; but no
\* FIXED instance is ever among the indices the classification counts, it
\* keeps the one-value range and the id it was created with, and a FIXED
\* endpoint of a transform edge is a copy of that edge's own: it is held by
\* no basis function, not by index_map and by no other endpoint.
C4_FixedNeverCounted ==
    LET ends == TransformEndpoints
        inside == Elems(InternalFootprint)
        counted == Elems(todo)
    IN
    /\ \A i \in 1..Len(heap) :
           heap[i].index_type = FIXED =>
               /\ i \notin counted
               /\ Len(heap[i].index_range) = 1
               /\ heap[i].index_id \in {NoneId, heap[i].index_range[1]}
    /\ \A i \in Elems(ends) :
           heap[i].index_type = FIXED =>
               /\ Count(ends, i) = 1
               /\ i \notin inside
               /\ \A c \in DOMAIN index_map : index_map[c] # i

\* C4, witness: a finished construction in which two factors share the
\* instance of an equal literal component and an edge has a FIXED endpoint.
C4_Witness ==
    /\ pc = "done"
    /\ \E k1, k2 \in 1..Len(monomial) :
           /\ k1 < k2
           /\ AffineLiteral(k1) /\ AffineLiteral(k2)
           /\ self.basis_functions[k1].components[1]
                  = self.basis_functions[k2].components[1]
    /\ \E i \in Elems(TransformEndpoints) : heap[i].index_type = FIXED

\* The transformation of the factors fs[k..] from S, to the first exception.
RECURSIVE transform_factors(_, _, _)
transform_factors(S, fs, k) ==
    IF k > Len(fs) THEN [heap |-> S.heap, index_map |-> S.index_map,
                         self |-> S.self, error |-> ""]
    ELSE LET r == process_factor(S, fs[k])
         IN  IF r.error # "" THEN r
             ELSE transform_factors([heap |-> r.heap, index_map |-> r.index_map,
                                     self |-> r.self], fs, k + 1)

\* The loop of line 303 from position k on, to the first exception.
RECURSIVE classify_from(_, _, _, _, _)
classify_from(h, C, internal, external, k) ==
    IF k > Len(internal \o external) THEN [heap |-> h, counters |-> C, error |-> ""]
    ELSE LET r == classify(h, C, internal, external, (internal \o external)[k])
         IN  IF r.error # "" THEN r
             ELSE classify_from(r.heap, r.counters, internal, external, k + 1)

\* The construction for the raw factors fs with the counters at 0 when the
\* first factor is read: what a process that had transformed nothing before
\* builds.
FirstTransformation(fs) ==
    LET t == transform_factors([heap |-> <<>>, index_map |-> <<>>,
                                self |-> EmptyMonomial], fs, 1)
        c == classify_from(t.heap, [secondary |-> 0, internal |-> 0, external |-> 0],
                           extract_internal_indices(t.self, t.heap, NoneType),
                           extract_external_indices(t.self, t.heap, NoneType), 1)
    IN  [self |-> t.self, heap |-> c.heap, counters |-> c.counters,
         error |-> IF t.error # "" THEN t.error ELSE c.error]

\* C5: the three counters are zero when the first factor of a construction
\* is read, whatever was constructed or failed before; every finished
\* construction equals, in roles, ids, determinant power and counters, the
\* one a process that had transformed nothing before builds from the same
\* raw monomial; and the first index of each summation role met by the
\* classification has id 0.
C5_IndependentOfHistory ==
    /\ (pc = "factors" /\ monomial = <<>>) =>
           counters = [secondary |-> 0, internal |-> 0, external |-> 0]
    /\ pc = "done" =>
           /\ LET r == FirstTransformation(monomial)
              IN  /\ r.error = ""
                  /\ heap = r.heap
                  /\ self = r.self
                  /\ counters = r.counters
           /\ \A k \in 1..Len(todo) :
                  (\A j \in 1..(k - 1) :
                       heap[todo[j]].index_type # heap[todo[k]].index_type)
                      => heap[todo[k]].index_id = 0

\* C5, witness: a construction was called after an earlier one had left
\* the secondary and the external counter above zero, and stands before its
\* first factor with the counters reset.
C5_Witness ==
    /\ pc = "factors"
    /\ monomial = <<>>
    /\ stale
    /\ counters = [secondary |-> 0, internal |-> 0, external |-> 0]

(***************************************************************************)
(* Properties of the integral generator (IntegralSpec).                    *)
(***************************************************************************)
\* What a statement is, read off the statement itself.
IsReset(s) ==
    \/ s.op = "VerbatimStatement"
    \/ s.op = "Assign" /\ s.lhs.symbol.name = "A"
IsAccumulation(s) ==
    \/ s.op = "AssignAdd"
    \/ s.op = "ForRange" /\ s.index.name = "ia"
IsLoopConstruct(s) ==
    \/ s.op = "Scope"
    \/ s.op = "ForRange" /\ s.index.name = "iq"
    \/ s.op = "Comment" /\ s.text = "Only 1 quadrature point, no loop"

\* The phase of a top-level statement: 1 quadrature tables, 2 element
\* tables, 3 tensor reset, 4 the body of a point count.
TopRank(s) ==
    IF s.op = "Comment"
    THEN (IF s.text = "Section for quadrature weights and points" THEN 1
          ELSE IF s.text \in {"Section for precomputed element basis function values",
                              "Table dimensions: num_entities, num_points, num_dofs",
                              "Definitions of {0} tables for {1} quadrature points"}
          THEN 2
          ELSE IF s.text = "Reset element tensor" THEN 3 ELSE 4)
    ELSE IF s.op = "ArrayDecl"
    THEN (IF s.symbol.name \in {"weights", "points"} THEN 1
          ELSE IF s.symbol.name = "FE" THEN 2 ELSE 4)
    ELSE IF IsReset(s) THEN 3 ELSE 4

\* The phase of a statement of a body: 1 partition, 2 dof-block
\* accumulations, 3 quadrature loop.
BodyRank(s) ==
    IF IsLoopConstruct(s) THEN 3 ELSE IF IsAccumulation(s) THEN 2 ELSE 1

\* The point counts a statement names at its top.
PointsOf(s) ==
    IF s.op = "Definition" THEN {s.num_points}
    ELSE IF s.op = "ArrayDecl" THEN {s.symbol.n}
    ELSE IF s.op = "Assign" THEN {s.lhs.symbol.n}
    ELSE IF s.op = "ForRange" /\ s.index.name = "iq" THEN {s.index.n}
    ELSE {}

\* The intermediate arrays a statement declares or assigns.
ArraysOf(s) ==
    IF s.op = "ArrayDecl" THEN {s.symbol.name}
    ELSE IF s.op = "Assign" THEN {s.lhs.symbol.name}
    ELSE {}

Ordered(b, rank(_)) == \A k \in 1..(Len(b) - 1) : rank(b[k]) <= rank(b[k + 1])

\* The inside of a quadrature loop of point count n: the varying partition,
\* then the varying accumulations, nothing else.
InnerOrdered(b, n) ==
    /\ Ordered(b, BodyRank)
    /\ \A k \in 1..Len(b) :
          /\ ~IsLoopConstruct(b[k])
          /\ PointsOf(b[k]) \subseteq {n}
          /\ ArraysOf(b[k]) \subseteq {"sv"}

\* The body of point count n: piecewise partition, piecewise accumulations,
\* then the quadrature loop.
BodyOrdered(b, n) ==
    /\ Ordered(b, BodyRank)
    /\ \A k \in 1..Len(b) :
          /\ PointsOf(b[k]) \subseteq {n}
          /\ ArraysOf(b[k]) \subseteq {"sp"}
          /\ (b[k].op = "Scope" \/ (b[k].op = "ForRange" /\ b[k].index.name = "iq"))
                => InnerOrdered(b[k].body, n)

\* The point count of a table: that of its symbol for weights and points,
\* the second extent of an element table.
TablePoints(s) == IF s.symbol.name = "FE" THEN s.sizes[2] ELSE s.symbol.n

\* C6: the statements generate() has emitted so far are in phase order:
\* quadrature tables, element tables, tensor reset, then the bodies of the
\* point counts in ascending order, each body being piecewise partition,
\* piecewise accumulations, quadrature loop (inside it the varying partition
\* before the varying accumulations); with more than one point count every
\* body is its own scope, and the tables of each phase are in ascending
\* order of point count, so no statement of one point count lies among
\* those of another.
C6_PhaseOrder ==
    (gpc \notin {"none", "new"}) =>
        LET bodies == SelectSeq(parts, LAMBDA s : TopRank(s) = 4)
            tables == SelectSeq(parts, LAMBDA s : s.op = "ArrayDecl" /\ TopRank(s) < 3)
        IN  /\ Ordered(parts, TopRank)
            /\ \A k \in 1..(Len(tables) - 1) :
                  TopRank(tables[k]) = TopRank(tables[k + 1])
                     => TablePoints(tables[k]) <= TablePoints(tables[k + 1])
            /\ \A k \in 1..(Len(all_num_points) - 1) :
                  all_num_points[k] < all_num_points[k + 1]
            /\ IF Len(all_num_points) > 1
               THEN /\ Len(bodies) = (IF gpc = "raised" /\ qi > Len(all_num_points)
                                      THEN Len(all_num_points) ELSE qi - 1)
                    /\ \A k \in 1..Len(bodies) :
                          /\ bodies[k].op = "Scope"
                          /\ BodyOrdered(bodies[k].body, all_num_points[k])
               ELSE IF Len(all_num_points) = 1
               THEN BodyOrdered(bodies, all_num_points[1])
               ELSE bodies = <<>>

\* C6, witness: generate() has returned the statements of two point counts:
\* tables, the
\* reset, and two scopes, the second with piecewise statements and a counted
\* quadrature loop.
C6_Witness ==
    /\ gpc = "returned"
    /\ Len(all_num_points) = 2
    /\ parts[1].op = "Comment"
    /\ \E k \in 1..Len(parts) :
          /\ parts[k].op = "Scope"
          /\ Len(parts[k].body) > 2
          /\ BodyRank(parts[k].body[1]) = 1
          /\ \E j \in 1..Len(parts[k].body) :
                /\ parts[k].body[j].op = "ForRange"
                /\ parts[k].body[j].index.name = "iq"
                /\ Len(parts[k].body[j].body) > 2
                /\ \E a \in 1..Len(parts[k].body[j].body) :
                      IsAccumulation(parts[k].body[j].body[a])

\* generate_quadrature_loops has just run for a point count: body is that
\* point count's body.
JustLooped == gpc \in {"loop", "returned"} /\ qi > 1

\* The varying partition of e emits a statement, or e has a varying
\* contribution.
VaryingEmits(e) ==
    \/ \E i \in 1..Len(e.V) : e.varying[i] /\ (e.V[i].type = "operator" \/ e.V[i].ndefs > 0)
    \/ \E d \in DOMAIN e.block_contributions.varying :
          e.block_contributions.varying[d] # <<>>

\* C7: a point count's body ends with: no quadrature-loop construct when
\* the varying partition emits nothing and there is no varying contribution
\* (whatever the point count); else, for one point, one scope around the
\* non-empty varying statements and no counted loop; else one counted loop
\* from 0 to the point count around them.
C7_LoopShapes ==
    JustLooped =>
        LET n == all_num_points[qi - 1]
            loops == SelectSeq(body, LAMBDA s : s.op \in {"Scope", "ForRange"}
                                                 /\ IsLoopConstruct(s))
        IN  IF ~VaryingEmits(ir.expr_irs[n])
            THEN \A k \in 1..Len(body) : ~IsLoopConstruct(body[k])
            ELSE /\ Len(loops) = 1
                 /\ body[Len(body)] = loops[1]
                 /\ loops[1].body # <<>>
                 /\ InnerOrdered(loops[1].body, n)
                 /\ IF n = 1 THEN loops[1].op = "Scope"
                    ELSE /\ loops[1].op = "ForRange"
                         /\ loops[1].index = quadrature_loop_index(n)
                         /\ loops[1].begin = 0
                         /\ loops[1].end = n

\* C7, witness: a body of point count 1 that ends with a scope.
C7_Witness ==
    /\ JustLooped
    /\ all_num_points[qi - 1] = 1
    /\ body # <<>>
    /\ body[Len(body)].op = "Scope"
    /\ Len(body[Len(body)].body) > 1

\* generate_tensor_reset has run in this call of generate().
AfterReset == gpc \in {"accesses", "loop", "dofblocks", "quadrature_loops", "returned"}

\* C8: the statements emitted hold exactly one reset statement: the
\* assignment of 0.0 to entry 0 of the tensor when the product of the shape
\* is 1, else one memset of as many entries as that product.
C8_TensorReset ==
    AfterReset =>
        LET resets == SelectSeq(parts, IsReset)
            N == product(ir.tensor_shape)
        IN  /\ Len(resets) = 1
            /\ IF N = 1
               THEN resets[1] = Assign(ArrayAccess(element_tensor, 0), LiteralFloat(0))
               ELSE /\ resets[1].op = "VerbatimStatement"
                    /\ resets[1].code.fn = "memset"
                    /\ resets[1].code.ptrname = element_tensor
                    /\ resets[1].code.value = 0
                    /\ resets[1].code.size = N

\* C8, witness: the reset of a tensor of rank 2 with one entry.
C8_Witness ==
    /\ gpc = "accesses"
    /\ Len(ir.tensor_shape) = 2
    /\ product(ir.tensor_shape) = 1
    /\ parts[Len(parts)].op = "Assign"

\* The number of declarations of the array symbol among the statements.
DeclCount(symbol) ==
    Len(SelectSeq(parts, LAMBDA s : s.op = "ArrayDecl" /\ s.symbol = symbol))

\* C10: after the two table phases, when no rule lacked its expression ir:
\* the weights of n are declared once if the integral type has rules, n has
\* a rule and the ir of n needs weights, else not at all; the points once if
\* moreover their dimension is not 0 and the ir needs points; and every
\* table of every point count is declared exactly once, whatever the
\* integral type, and nothing else is declared.
C10_Tables ==
    (gpc = "tensor_reset") =>
        LET ruled(n) == ir.integral_type \notin skip /\ n \in DOMAIN ir.quadrature_rules
            tables == UNION { DOMAIN ir.expr_irs[n].unique_tables : n \in DOMAIN ir.expr_irs }
        IN  /\ \A n \in PointCounts :
                  /\ DeclCount(weights_array(n)) =
                        (IF ruled(n) /\ ir.expr_irs[n].need_weights THEN 1 ELSE 0)
                  /\ DeclCount(points_array(n)) =
                        (IF /\ ruled(n)
                            /\ ir.quadrature_rules[n].pdim # 0
                            /\ ir.expr_irs[n].need_points
                         THEN 1 ELSE 0)
            /\ \A k \in tables : DeclCount(table_name(k)) = 1
            /\ Len(SelectSeq(parts, LAMBDA s : s.op = "ArrayDecl")) =
                  Cardinality(tables)
                  + Cardinality({n \in PointCounts : DeclCount(weights_array(n)) = 1})
                  + Cardinality({n \in PointCounts : DeclCount(points_array(n)) = 1})

\* C10, witness: a cell integral whose ir of 2 points needs weights and
\* points, with
\* points of dimension 0 and two tables: weights and tables, no points.
C10_Witness ==
    /\ gpc = "tensor_reset"
    /\ ir.integral_type = "cell"
    /\ 2 \in DOMAIN ir.quadrature_rules
    /\ ir.quadrature_rules[2].pdim = 0
    /\ ir.expr_irs[2].need_points
    /\ DeclCount(weights_array(2)) = 1
    /\ DeclCount(points_array(2)) = 0
    /\ DeclCount(table_name(22)) = 1

\* The contributions of a partition in the order they are visited.
RECURSIVE Contributions(_, _, _)
Contributions(blocks, keys, b) ==
    IF b > Len(keys) THEN <<>>
    ELSE [c \in 1..Len(blocks[keys[b]]) |->
             [dofblock |-> keys[b], data |-> blocks[keys[b]][c]]]
         \o Contributions(blocks, keys, b + 1)

\* The counted loops around an accumulation, outermost first, and the
\* accumulation.
RECURSIVE LoopHeaders(_)
LoopHeaders(s) ==
    IF s.op = "ForRange"
    THEN <<[index |-> s.index, begin |-> s.begin, end |-> s.end]>> \o LoopHeaders(s.body)
    ELSE <<>>

RECURSIVE Innermost(_)
Innermost(s) == IF s.op = "ForRange" THEN Innermost(s.body) ELSE s

\* One loop per non-quadrature axis of c, axis 0 first, over the axis's range.
ExpectedLoops(c) ==
    LET axes == SelectSeq([i \in 1..Len(c.data.ttypes) |-> i],
                          LAMBDA i : c.data.ttypes[i] # "quadrature")
    IN  [k \in 1..Len(axes) |->
            [index |-> argument_loop_index(axes[k] - 1),
             begin |-> c.dofblock[axes[k]][1],
             end |-> c.dofblock[axes[k]][2]]]

NestsMatch(stmts, cs) ==
    /\ Len(stmts) = Len(cs)
    /\ \A k \in 1..Len(stmts) :
          /\ LoopHeaders(stmts[k]) = ExpectedLoops(cs[k])
          /\ Innermost(stmts[k]).op = "AssignAdd"
    /\ \A k1, k2 \in 1..Len(stmts) :
          (cs[k1].dofblock = cs[k2].dofblock /\ cs[k1].data.ttypes = cs[k2].data.ttypes)
             => /\ LoopHeaders(stmts[k1]) = LoopHeaders(stmts[k2])
                /\ Innermost(stmts[k1]).lhs = Innermost(stmts[k2]).lhs

\* C9: in the body of a point count, the accumulation of every
\* contribution, piecewise and varying, is wrapped in one counted loop per
\* non-quadrature axis, over that axis's range of the dofblock, axis 0
\* outermost and the last axis innermost, and none for a quadrature axis;
\* contributions of one dofblock with the same roles have the same loops
\* and accumulate into the same entry.
C9_LoopNest ==
    JustLooped =>
        LET n == all_num_points[qi - 1]
            blocks == ir.expr_irs[n].block_contributions
            constructs == SelectSeq(body, LAMBDA s : s.op \in {"Scope", "ForRange"}
                                                      /\ IsLoopConstruct(s))
            inner == IF constructs = <<>> THEN <<>> ELSE constructs[1].body
        IN  /\ NestsMatch(SelectSeq(body, IsAccumulation),
                          Contributions(blocks.piecewise,
                                        SortedBlocks(DOMAIN blocks.piecewise), 1))
            /\ NestsMatch(SelectSeq(inner, IsAccumulation),
                          Contributions(blocks.varying,
                                        SortedBlocks(DOMAIN blocks.varying), 1))

\* C9, witness: two contributions of one dofblock of a rank 2 tensor, each in
\* two nested
\* loops.
C9_Witness ==
    /\ JustLooped
    /\ Len(ir.tensor_shape) = 2
    /\ \E k \in 1..(Len(body) - 1) :
          /\ body[k].op = "ForRange"
          /\ body[k].body.op = "ForRange"
          /\ body[k + 1].op = "ForRange"
          /\ LoopHeaders(body[k]) = LoopHeaders(body[k + 1])
          /\ Len(LoopHeaders(body[k])) = 2

Reads(f) ==
    /\ pc = "factors"
    /\ monomial' = Append(monomial, f)

\* C12: a factor with more than one component (each raw component resolves
\* to one index) ends the construction with the rank error, and the step
\* that reads it adds no transform, changes no determinant power and adds
\* no basis function; a factor with at most one never raises the rank
\* error; and every basis function of a construction that has not failed
\* has at most one component.
C12_RankError ==
    /\ [](pc \in {"factors", "classify", "done"} =>
            \A k \in 1..Len(self.basis_functions) :
                Len(self.basis_functions[k].components) <= 1)
    /\ [][\A f \in Factors : Reads(f) =>
              IF Len(f.components) > 1
              THEN /\ pc' = "failed"
                   /\ error' = RANK_ERROR
                   /\ self'.transforms = self.transforms
                   /\ self'.determinant = self.determinant
                   /\ self'.basis_functions = self.basis_functions
              ELSE error' # RANK_ERROR]_vars

\* C12, witness: the rank error at a factor of a Piola-mapped element that
\* has two components and a derivative, after a factor that left a
\* transform.
C12_Witness ==
    /\ pc = "failed"
    /\ error = RANK_ERROR
    /\ Len(monomial) > 1
    /\ Len(monomial[Len(monomial)].components) = 2
    /\ monomial[Len(monomial)].element = "RT"
    /\ monomial[Len(monomial)].derivatives # <<>>
    /\ Len(self.transforms) = 1

\* The map kinds of the sub-elements of e that the values of a range lie in.
MapKinds(e, index_range) ==
    { component_element(e, index_range[k]).mapping : k \in 1..Len(index_range) }

\* C13: when the one component of a factor resolves to an index whose range
\* holds values of sub-elements with different map kinds, the step that
\* reads the factor ends the construction with the mapping error and adds
\* no transform, changes no determinant power and adds no basis function;
\* when all values share one map kind the mapping error is not raised.
C13_MappingConflict ==
    [][\A f \in Factors : (Reads(f) /\ Len(f.components) = 1) =>
          LET component == index_map'[f.components[1]]
              kinds == MapKinds(f.element, heap'[component].index_range)
          IN  IF Cardinality(kinds) > 1
              THEN /\ pc' = "failed"
                   /\ error' = MAPPING_ERROR
                   /\ self'.transforms = self.transforms
                   /\ self'.determinant = self.determinant
                   /\ self'.basis_functions = self.basis_functions
              ELSE error' = ""]_vars

\* C13, witness: the mapping error at a factor with a derivative, after a
\* contravariant factor that left a transform and the power -1.
C13_Witness ==
    /\ pc = "failed"
    /\ error = MAPPING_ERROR
    /\ monomial[Len(monomial)].derivatives # <<>>
    /\ Len(self.transforms) = 1
    /\ self.determinant.power = -1

(***************************************************************************)
(* C14.  Evaluating an index: a FIXED index gives its stored value with no *)
(* argument supplied; an index of role PRIMARY, SECONDARY, INTERNAL or     *)
(* EXTERNAL gives the entry at its id of the argument supplied for that    *)
(* same role, and fails with the missing-values error naming that role     *)
(* when that argument is not given, whatever the other three arguments     *)
(* are.                                                                    *)
(***************************************************************************)
Evaluated == result.error # "none"

\* The argument of the role of the index evaluated, and the error naming it.
OwnBinding ==
    CASE called.index.index_type = PRIMARY -> called.primary
      [] called.index.index_type = SECONDARY -> called.secondary
      [] called.index.index_type = INTERNAL -> called.internal
      [] called.index.index_type = EXTERNAL -> called.external

OwnError ==
    CASE called.index.index_type = PRIMARY -> "Missing index values for primary indices."
      [] called.index.index_type = SECONDARY -> "Missing index values for secondary indices."
      [] called.index.index_type = INTERNAL -> "Missing index values for internal auxiliary indices."
      [] called.index.index_type = EXTERNAL -> "Missing index values for external auxiliary indices."

C14_Evaluate ==
    Evaluated =>
        /\ called.index.index_type = FIXED =>
              result = [value |-> called.index.index_range[1], error |-> ""]
        /\ called.index.index_type \in {PRIMARY, SECONDARY, INTERNAL, EXTERNAL} =>
              /\ ~OwnBinding.given => result = [value |-> NoValue, error |-> OwnError]
              /\ called.index.index_id + 1 \in DOMAIN OwnBinding.values =>
                    result = [value |-> OwnBinding.values[called.index.index_id + 1],
                              error |-> ""]

\* A secondary index fails although the three other arguments are given.
C14_Witness ==
    /\ Evaluated
    /\ called.index.index_type = SECONDARY
    /\ ~called.secondary.given
    /\ called.primary.values # <<>>
    /\ called.internal.values # <<>>
    /\ called.external.values # <<>>
    /\ result.error = MISSING_SECONDARY

(***************************************************************************)
(* C15.  When an integral type that has quadrature rules has an expression *)
(* ir for a point count without a rule, generate() fails and returns no    *)
(* statements; it never returns with the weights and points arrays of that *)
(* point count left out.                                                   *)
(***************************************************************************)
Unruled ==
    IF ir.integral_type \in skip \cup {"none"} THEN {}
    ELSE DOMAIN ir.expr_irs \ DOMAIN ir.quadrature_rules

C15_MissingRuleFails == (Unruled # {}) => gpc # "returned"

\* generate() has returned statements for a point count without a rule: an
\* element table of that point count is declared, its weights and points,
\* which its expression ir needs, are not.
C15_SilentlyLeftOut ==
    /\ gpc = "returned"
    /\ \E n \in Unruled :
          /\ ir.expr_irs[n].need_weights /\ ir.expr_irs[n].need_points
          /\ DeclCount(weights_array(n)) = 0
          /\ DeclCount(points_array(n)) = 0
          /\ \E k \in DOMAIN ir.expr_irs[n].unique_tables : DeclCount(table_name(k)) = 1
          /\ n \in { all_num_points[k] : k \in 1..Len(all_num_points) }

(***************************************************************************)
(* C16.  A partition visits the nodes flagged for it, in increasing        *)
(* position.  When every operand of a flagged node lies before it and is   *)
(* flagged for the same partition or, for the varying partition, for the   *)
(* piecewise one of the same point count, the partition does not fail:     *)
(* each operator is translated from the memo entries of its operands, and  *)
(* afterwards the memo of the point count has one entry for each node      *)
(* visited so far and for no other.                                        *)
(***************************************************************************)
Active(e, partition) == { i \in 1..Len(e.V) : e[partition][i] }

Resolvable(e, partition) ==
    \A i \in Active(e, partition) : \A k \in 1..Len(e.V[i].operands) :
        /\ e.V[i].operands[k] < i
        /\ e.V[i].operands[k] \in
              Active(e, partition)
              \cup (IF partition = "varying" THEN Active(e, "piecewise") ELSE {})

\* The memo entry of node i is what its translation gives, the operands
\* read from the memo, and stmts holds its assignment.
Translated(memo, e, i, symbol, num_points, stmts) ==
    LET v == e.V[i]
        vexpr == ufl_to_language(v.name, [k \in 1..Len(v.operands) |-> memo[v.operands[k]]])
    IN  IF v.type = "terminal" THEN memo[i] = access(i, num_points)
        ELSE /\ \A k \in 1..Len(v.operands) : v.operands[k] \in DOMAIN memo
             /\ IF v.type = "condition" THEN memo[i] = vexpr
                ELSE /\ memo[i].op = "ArrayAccess"
                     /\ memo[i].symbol = symbol
                     /\ \E k \in 1..Len(stmts) : stmts[k] = Assign(memo[i], vexpr)

\* The statements of stmts come in increasing node position: the terminal
\* definitions by their node, the slots by the position of their operator.
InVisitOrder(memo, e, partition, stmts) ==
    LET defs == SelectSeq(stmts, LAMBDA s : s.op = "Definition")
        slotted == { i \in Active(e, partition) : e.V[i].type = "operator" }
    IN  /\ \A k \in 1..(Len(defs) - 1) : defs[k].node <= defs[k + 1].node
        /\ { defs[k].node : k \in 1..Len(defs) } =
              { i \in Active(e, partition) : e.V[i].type = "terminal" /\ e.V[i].ndefs > 0 }
        /\ \A i \in slotted, j \in slotted : i < j => memo[i].index < memo[j].index

C16_Piecewise ==
    (gpc = "loop" /\ qi <= Len(all_num_points)
        /\ Resolvable(ir.expr_irs[all_num_points[qi]], "piecewise")) =>
        LET n == all_num_points[qi]
            e == ir.expr_irs[n]
            memo == vaccesses'[n]
        IN  /\ gpc' = "dofblocks"
            /\ DOMAIN memo = Active(e, "piecewise")
            /\ \A i \in Active(e, "piecewise") :
                  Translated(memo, e, i, partition_symbol("sp", n), n, body')
            /\ InVisitOrder(memo, e, "piecewise", body')

C16_Varying ==
    (gpc = "quadrature_loops"
        /\ Resolvable(ir.expr_irs[all_num_points[qi]], "varying")) =>
        LET n == all_num_points[qi]
            e == ir.expr_irs[n]
            memo == vaccesses'[n]
            inner == IF gpc' = "loop" /\ Len(body') > Len(body)
                     THEN body'[Len(body')].body ELSE <<>>
        IN  /\ gerror' = "" \/ DOMAIN e.block_contributions.varying # {}
            /\ DOMAIN memo = Active(e, "piecewise") \cup Active(e, "varying")
            /\ \A i \in Active(e, "piecewise") : memo[i] = vaccesses[n][i]
            /\ gpc' = "loop" =>
                  /\ \A i \in Active(e, "varying") :
                        Translated(memo, e, i, partition_symbol("sv", n), n, inner)
                  /\ InVisitOrder(memo, e, "varying", inner)

C16_Memoized == [][C16_Piecewise /\ C16_Varying]_vars

\* The varying partition has translated the conditional from the memo
\* entries of its operands, the condition among them, after the piecewise
\* partition of the same point count memoized nodes 1 to 4.
C16_Witness ==
    /\ gpc = "loop" /\ qi > 1
    /\ LET n == all_num_points[qi - 1]
           e == ir.expr_irs[n]
       IN  /\ Active(e, "piecewise") = 1..4
           /\ Active(e, "varying") = {5, 6}
           /\ DOMAIN vaccesses[n] = 1..6
           /\ vaccesses[n][6] = ArrayAccess(partition_symbol("sv", n), 0)
           /\ vaccesses[n][5] = ufl_to_language("lt", <<vaccesses[n][1], vaccesses[n][4]>>)
           /\ vaccesses[n][4] = ArrayAccess(partition_symbol("sp", n), 0)

(***************************************************************************)
(* C17.  The memo of accesses is kept per point count and per call of      *)
(* generate(): when the loop over the point counts starts, and whenever    *)
(* the processing of a point count starts, the memo of every point count   *)
(* not yet processed is empty, whatever an earlier call left; the memo of  *)
(* a point count only ever holds nodes flagged for that point count; the   *)
(* steps of one point count leave the memos of the others alone; and an    *)
(* entry of the point count in process stays, unchanged unless the varying *)
(* partition visits its node again, through the piecewise dof-block step,  *)
(* the varying partition and the varying dof-block step.                   *)
(***************************************************************************)
InProcess == gpc \in {"dofblocks", "quadrature_loops"}

C17_Scoped ==
    /\ (gpc = "loop" \/ InProcess) =>
          /\ DOMAIN vaccesses = DOMAIN ir.expr_irs
          /\ \A k \in 1..Len(all_num_points) :
                (k > qi \/ (k = qi /\ gpc = "loop")) => vaccesses[all_num_points[k]] = <<>>
    /\ \A n \in DOMAIN vaccesses :
          DOMAIN vaccesses[n] \subseteq
              Active(ir.expr_irs[n], "piecewise") \cup Active(ir.expr_irs[n], "varying")
    /\ InProcess =>
          Active(ir.expr_irs[all_num_points[qi]], "piecewise")
              \subseteq DOMAIN vaccesses[all_num_points[qi]]

C17_Kept ==
    ((gpc = "loop" /\ qi <= Len(all_num_points)) \/ InProcess) =>
        LET n == all_num_points[qi]
        IN  /\ DOMAIN vaccesses' = DOMAIN vaccesses
            /\ \A m \in DOMAIN vaccesses \ {n} : vaccesses'[m] = vaccesses[m]
            /\ \A i \in DOMAIN vaccesses[n] :
                  /\ i \in DOMAIN vaccesses'[n]
                  /\ ~ir.expr_irs[n].varying[i] => vaccesses'[n][i] = vaccesses[n][i]

C17_MemoScope == []C17_Scoped /\ [][C17_Kept]_vars

\* The piecewise partition of point count 2 fails on an operand that the
\* memo of point count 1 holds.
C17_Witness ==
    /\ gpc = "raised" /\ gerror = KEY_ERROR
    /\ all_num_points = <<1, 2>> /\ qi = 2
    /\ DOMAIN vaccesses[1] = 1..6
    /\ vaccesses[2] = <<>>
    /\ Active(ir.expr_irs[2], "piecewise") = {4}
    /\ Len(parts) > 0 /\ parts[Len(parts)].op = "Scope"

(***************************************************************************)
(* C18.  In one partition a condition gets no slot: its memo entry is the  *)
(* inlined expression.  Every other operator gets the slot numbered by the *)
(* count of non-condition operators visited before it in that partition,   *)
(* so the slots are 0..k-1; the intermediate array is declared with size k *)
(* and not at all when k is 0; and the statements of the partition are the *)
(* terminal definitions, then the declaration, then the slot assignments   *)
(* in visit order.                                                         *)
(***************************************************************************)
Slotted(e, partition) == { i \in Active(e, partition) : e.V[i].type = "operator" }

SlotOf(e, partition, i) == Cardinality({ j \in Slotted(e, partition) : j < i })

\* vexpr of node i, its operands read from memo.
Inlined(memo, e, i) ==
    ufl_to_language(e.V[i].name,
                    [k \in 1..Len(e.V[i].operands) |-> memo[e.V[i].operands[k]]])

\* code is the statements of the partition of e with array symbol.
PartitionShape(memo, e, partition, symbol, code) ==
    LET k == Cardinality(Slotted(e, partition))
        nd == Len(SelectSeq(code, LAMBDA s : s.op = "Definition"))
        at(j) == CHOOSE i \in Slotted(e, partition) : SlotOf(e, partition, i) = j
    IN  /\ \A i \in Active(e, partition) :
              /\ e.V[i].type = "condition" => memo[i] = Inlined(memo, e, i)
              /\ e.V[i].type = "operator" =>
                    memo[i] = ArrayAccess(symbol, SlotOf(e, partition, i))
        /\ \A x \in 1..nd : code[x].op = "Definition"
        /\ Len(code) = nd + (IF k = 0 THEN 0 ELSE k + 1)
        /\ k > 0 =>
              /\ code[nd + 1] = ArrayDecl("double", symbol, <<k>>, FALSE)
              /\ \A j \in 0..(k - 1) :
                    code[nd + 2 + j] = Assign(ArrayAccess(symbol, j), Inlined(memo, e, at(j)))

Uncommented(stmts) == SelectSeq(stmts, LAMBDA s : s.op # "Comment")

C18_PiecewiseShape ==
    (gpc = "loop" /\ gpc' = "dofblocks") =>
        LET n == all_num_points[qi]
        IN  PartitionShape(vaccesses'[n], ir.expr_irs[n], "piecewise",
                           partition_symbol("sp", n), Uncommented(body'))

C18_VaryingShape ==
    (gpc = "quadrature_loops" /\ gpc' = "loop") =>
        LET n == all_num_points[qi]
            inner == IF Len(body') > Len(body) THEN body'[Len(body')].body ELSE <<>>
        IN  PartitionShape(vaccesses'[n], ir.expr_irs[n], "varying",
                           partition_symbol("sv", n),
                           SelectSeq(Uncommented(inner), LAMBDA s : ~IsAccumulation(s)))

C18_Slots == [][C18_PiecewiseShape /\ C18_VaryingShape]_vars

\* All six nodes in the varying partition of point count 2: the sum in
\* slot 0, the condition inlined, the conditional in slot 1 of an array of
\* size 2.
C18_Witness ==
    /\ gpc = "loop" /\ qi > 1
    /\ all_num_points[qi - 1] = 2
    /\ Active(ir.expr_irs[2], "varying") = 1..6
    /\ vaccesses[2][4] = ArrayAccess(partition_symbol("sv", 2), 0)
    /\ vaccesses[2][5].op = "ufl"
    /\ vaccesses[2][6] = ArrayAccess(partition_symbol("sv", 2), 1)
    /\ body[Len(body)].op = "ForRange"
    /\ \E x \in 1..Len(body[Len(body)].body) :
          body[Len(body)].body[x] = ArrayDecl("double", partition_symbol("sv", 2), <<2>>, FALSE)

(***************************************************************************)
(* C19.  The term accumulated for a contribution is the product of the     *)
(* memo entry of its factor node, unless that node is the literal 1.0, and *)
(* of one table access for every axis whose role is neither "ones" nor     *)
(* "quadrature", in axis order; nothing stands for an omitted factor, and  *)
(* with every factor omitted the term is the literal 1.0.  There is one    *)
(* accumulation per contribution, in the sorted order of the dofblocks and *)
(* within a dofblock in the order of its list.                             *)
(***************************************************************************)
ExpectedFactors(c, e, num_points) ==
    LET axes == SelectSeq([i \in 1..Len(c.data.ttypes) |-> i],
                          LAMBDA i : c.data.ttypes[i] \notin {"ones", "quadrature"})
    IN  (IF e.V[c.data.factor_index] = One THEN <<>>
         ELSE <<vaccesses[num_points][c.data.factor_index]>>)
        \o [k \in 1..Len(axes) |->
               table_access(c.data.ma_indices[axes[k]], c.data.table_ranges[axes[k]],
                            num_points)]

TermsMatch(stmts, cs, e, num_points) ==
    /\ Len(stmts) = Len(cs)
    /\ \A k \in 1..Len(stmts) :
          LET s == Innermost(stmts[k])
              factors == ExpectedFactors(cs[k], e, num_points)
          IN  /\ s.op = "AssignAdd"
              /\ s.lhs.symbol = element_tensor
              /\ LoopHeaders(stmts[k]) = ExpectedLoops(cs[k])
              /\ s.rhs = IF factors = <<>> THEN LiteralFloat(1) ELSE Product(factors)

\* Strictly increasing order of dofblocks, as tuples of (begin, end) pairs.
BlocksAscend(cs) ==
    \A k \in 1..(Len(cs) - 1) :
        \/ cs[k].dofblock = cs[k + 1].dofblock
        \/ TupleLess(FlatBlock(cs[k].dofblock), FlatBlock(cs[k + 1].dofblock))

C19_Terms ==
    JustLooped =>
        LET n == all_num_points[qi - 1]
            e == ir.expr_irs[n]
            blocks == e.block_contributions
            constructs == SelectSeq(body, LAMBDA s : s.op \in {"Scope", "ForRange"}
                                                      /\ IsLoopConstruct(s))
            inner == IF constructs = <<>> THEN <<>> ELSE constructs[1].body
            piecewise == Contributions(blocks.piecewise,
                                       SortedBlocks(DOMAIN blocks.piecewise), 1)
            varying == Contributions(blocks.varying,
                                     SortedBlocks(DOMAIN blocks.varying), 1)
        IN  /\ BlocksAscend(piecewise) /\ BlocksAscend(varying)
            /\ TermsMatch(SelectSeq(body, IsAccumulation), piecewise, e, n)
            /\ TermsMatch(SelectSeq(inner, IsAccumulation), varying, e, n)

\* Two contributions of one dofblock of a rank 2 tensor with roles "full"
\* and "ones": the first with the factor and one table access, the second,
\* its factor the literal 1.0, with the table access alone.
C19_Witness ==
    /\ JustLooped
    /\ Len(ir.tensor_shape) = 2
    /\ LET acc == SelectSeq(body, IsAccumulation)
       IN  /\ Len(acc) = 2
           /\ Innermost(acc[1]).rhs.op = "Product"
           /\ Innermost(acc[2]).rhs.op = "Product"
           /\ Len(Innermost(acc[1]).rhs.factors) = 2
           /\ Innermost(acc[1]).rhs.factors[1] = access(1, all_num_points[qi - 1])
           /\ Len(Innermost(acc[2]).rhs.factors) = 1
           /\ Innermost(acc[2]).rhs.factors[1].op = "table_access"

(***************************************************************************)
(* C20.  Every accumulation that indexes the element tensor with the       *)
(* quadrature loop index of a point count lies inside a counted loop of    *)
(* that index from 0 to the number of points of that point count, be the   *)
(* contribution piecewise or varying and the point count 1 or more.        *)
(***************************************************************************)
UsesCounter(s, num_points) ==
    \E t \in 1..Len(Innermost(s).lhs.index) :
        Innermost(s).lhs.index[t].index = quadrature_loop_index(num_points)

C20_InsideLoop ==
    JustLooped =>
        LET n == all_num_points[qi - 1]
            constructs == SelectSeq(body, LAMBDA s : s.op \in {"Scope", "ForRange"}
                                                      /\ IsLoopConstruct(s))
        IN  /\ \A k \in 1..Len(body) : IsAccumulation(body[k]) => ~UsesCounter(body[k], n)
            /\ \A c \in 1..Len(constructs) : \A k \in 1..Len(constructs[c].body) :
                  LET s == constructs[c].body[k]
                  IN  (IsAccumulation(s) /\ UsesCounter(s, n)) =>
                          /\ constructs[c].op = "ForRange"
                          /\ constructs[c].index = quadrature_loop_index(n)
                          /\ constructs[c].begin = 0
                          /\ constructs[c].end = num_quadrature_points(n)

\* The body of point count 2 holds, outside any loop, the accumulation of a
\* piecewise contribution whose two axes have the role "quadrature".
C20_OutsideLoop ==
    /\ JustLooped
    /\ all_num_points[qi - 1] = 2
    /\ \E k \in 1..Len(body) :
          /\ body[k].op = "AssignAdd"
          /\ Len(body[k].lhs.index) = 2
          /\ body[k].lhs.index[1].index = quadrature_loop_index(2)
          /\ body[k].lhs.index[2].index = quadrature_loop_index(2)
    /\ \A k \in 1..Len(body) : body[k].op # "ForRange"

(***************************************************************************)
(* C21.  index + k and index - k are indices of the role and id of the     *)
(* original whose range is every value of the original plus, or minus, k;  *)
(* (index + k) - k has the range of the original; a shifted FIXED index    *)
(* evaluates to its shifted value.  Reading a factor changes no index that *)
(* existed before and only adds new ones, and every FIXED endpoint of a    *)
(* transform edge the factor adds is an index created in that step, with   *)
(* the id and, minus the offset of the edge, the value of the index its    *)
(* literal resolves to, which keeps its value.                             *)
(***************************************************************************)
Offsets == {0 - 1, 0, 1, 2}

Shifted(index, copy, k) ==
    /\ copy.index_type = index.index_type
    /\ copy.index_id = index.index_id
    /\ Len(copy.index_range) = Len(index.index_range)
    /\ \A x \in 1..Len(index.index_range) : copy.index_range[x] = index.index_range[x] + k

C21_Arithmetic ==
    \A index \in Indices, k \in Offsets :
        /\ Shifted(index, IndexAdd(index, k), k)
        /\ Shifted(index, IndexSub(index, k), 0 - k)
        /\ IndexSub(IndexAdd(index, k), k).index_range = index.index_range
        /\ index.index_type = FIXED =>
              call(IndexAdd(index, k), NotGiven, NotGiven, NotGiven, NotGiven)
                  = [value |-> index.index_range[1] + k, error |-> ""]

\* The literals of the factor f.
Literals(f) == { c \in Elems(f.components) \cup Elems(f.derivatives) : c.fixed }

C21_EdgeCopies ==
    \A f \in Factors : (Reads(f) /\ error' = "") =>
        /\ Len(heap') >= Len(heap)
        /\ \A i \in 1..Len(heap) : heap'[i] = heap[i]
        /\ \A k \in (Len(self.transforms) + 1)..Len(self'.transforms) :
              LET t == self'.transforms[k]
              IN  \A e \in {t.index0, t.index1} :
                      heap'[e].index_type = FIXED =>
                          /\ e > Len(heap)
                          /\ \A c \in DOMAIN index_map' : index_map'[c] # e
                          /\ \E c \in Literals(f) :
                                LET given == heap'[index_map'[c]]
                                IN  /\ given = MonomialIndex(FIXED, <<c.v>>, given.index_id)
                                    /\ heap'[e] = MonomialIndex(FIXED, <<c.v - t.offset>>,
                                                                given.index_id)

C21_OffsetCopies == []C21_Arithmetic /\ [][C21_EdgeCopies]_vars

\* A finished construction: the literal component 1 of the mixed element,
\* whose Piola sub-element starts at 1, is the endpoint of a Jacobian edge
\* as a copy of value 0, and the index the literal resolves to, which a
\* later factor uses again, still has value 1.
C21_Witness ==
    /\ pc = "done"
    /\ FixedIndex(1) \in DOMAIN index_map
    /\ heap[index_map[FixedIndex(1)]].index_range = <<1>>
    /\ \E k \in 1..Len(self.transforms) :
          /\ self.transforms[k].transform_type = J
          /\ self.transforms[k].offset = 1
          /\ heap[self.transforms[k].index0] = MonomialIndex(FIXED, <<0>>, NoneId)
    /\ \E k \in 2..Len(self.basis_functions) :
          self.basis_functions[k].element = "ND"

(***************************************************************************)
(* C22.  A factor with one component, read without error: when the        *)
(* sub-element of the resolved component is mapped contravariantly, the    *)
(* step adds, before the edges of the derivatives, one Jacobian edge from  *)
(* the resolved component to an index created in the step; when            *)
(* covariantly, one inverse-Jacobian edge from such an index to the        *)
(* resolved component; when affinely, none, and the component recorded is  *)
(* the resolved one.  In both Piola cases the new index has no role, its   *)
(* range is that of the geometric dimension shifted by the offset of the   *)
(* sub-element, it is the one component the basis function records, the    *)
(* resolved component is in no list of the basis function, and the edge    *)
(* has the restriction of the factor and the offset of the sub-element.    *)
(* (A FIXED resolved component is on the edge as its shifted copy.)        *)
(***************************************************************************)
\* Endpoint e of an edge of offset k stands for the index i.
StandsFor(h, e, i, k) ==
    IF h[i].index_type = FIXED
    THEN h[e] = MonomialIndex(FIXED, <<h[i].index_range[1] - k>>, h[i].index_id)
    ELSE e = i

C22_Step(f) ==
    LET resolved == index_map'[f.components[1]]
        sub == component_element(f.element, heap'[resolved].index_range[1])
        added == Len(self'.transforms) - Len(self.transforms)
        t == self'.transforms[Len(self.transforms) + 1]
        v == self'.basis_functions[Len(self'.basis_functions)]
        fresh == v.components[1]
        gdim == geometric_dimension(f.element)
    IN  /\ Len(v.components) = 1
        /\ IF sub.mapping = AFFINE
           THEN /\ added = Len(f.derivatives)
                /\ fresh = resolved
           ELSE /\ added = 1 + Len(f.derivatives)
                /\ fresh > Len(heap)
                /\ fresh # resolved
                /\ heap'[fresh] = MonomialIndex(NoneType,
                                                [x \in 1..gdim |-> x - 1 + sub.offset],
                                                NoneId)
                /\ resolved \notin Elems(<<v.index>> \o v.components \o v.derivatives)
                /\ t.restriction = f.restriction
                /\ t.offset = sub.offset
                /\ IF sub.mapping = CONTRAVARIANT_PIOLA
                   THEN /\ t.transform_type = J
                        /\ StandsFor(heap', t.index0, resolved, t.offset)
                        /\ t.index1 = fresh
                   ELSE /\ sub.mapping = COVARIANT_PIOLA
                        /\ t.transform_type = JINV
                        /\ t.index0 = fresh
                        /\ StandsFor(heap', t.index1, resolved, t.offset)

C22_PiolaEdges ==
    [][\A f \in Factors :
          (Reads(f) /\ error' = "" /\ Len(f.components) = 1) => C22_Step(f)]_vars

\* A finished construction with a contravariant factor of the mixed element
\* (restriction "+", offset 1) and a covariant factor: a Jacobian edge into
\* the component the first records, an inverse-Jacobian edge out of the
\* component the second records.
C22_Witness ==
    /\ pc = "done"
    /\ \E a, b \in 1..Len(self.basis_functions) :
          /\ self.basis_functions[a].element = "MX"
          /\ self.basis_functions[b].element = "ND"
          /\ \E k \in 1..Len(self.transforms) :
                /\ self.transforms[k].transform_type = J
                /\ self.transforms[k].restriction = "+"
                /\ self.transforms[k].offset = 1
                /\ self.transforms[k].index1 = self.basis_functions[a].components[1]
          /\ \E k \in 1..Len(self.transforms) :
                /\ self.transforms[k].transform_type = JINV
                /\ self.transforms[k].index0 = self.basis_functions[b].components[1]

(***************************************************************************)
(* C23.  One map resolves the components and the derivative directions of  *)
(* a construction.  It is empty when the first factor is read.  A factor   *)
(* step rebinds no key; it binds exactly the keys of the factor that it    *)
(* reads (all of them when the factor is packaged), each new key to an     *)
(* index created in that step; distinct keys are bound to distinct         *)
(* indices; and every occurrence of a free key in a packaged factor, as    *)
(* its component or as a direction, stands in the result as the index the  *)
(* map binds the key to: the recorded component (the Piola edge's endpoint *)
(* for a Piola factor) and the second endpoint of the direction's edge.    *)
(***************************************************************************)
C23_StartsEmpty == (pc = "factors" /\ monomial = <<>>) => index_map = <<>>

C23_Injective ==
    \A c, d \in DOMAIN index_map : c # d => index_map[c] # index_map[d]

C23_Step(f) ==
    LET keys == Elems(f.components) \cup Elems(f.derivatives)
        first == Len(self.transforms) + 1
        last == Len(self'.transforms)
        v == self'.basis_functions[Len(self'.basis_functions)]
    IN  /\ \A c \in DOMAIN index_map :
              c \in DOMAIN index_map' /\ index_map'[c] = index_map[c]
        /\ Elems(f.components) \subseteq DOMAIN index_map'
        /\ DOMAIN index_map' \subseteq DOMAIN index_map \cup keys
        /\ \A c \in DOMAIN index_map' \ DOMAIN index_map : index_map'[c] > Len(heap)
        /\ error' = "" =>
              /\ DOMAIN index_map' = DOMAIN index_map \cup keys
              /\ \A j \in 1..Len(f.derivatives) :
                    ~f.derivatives[j].fixed =>
                        self'.transforms[last - Len(f.derivatives) + j].index1
                            = index_map'[f.derivatives[j]]
              /\ (Len(f.components) = 1 /\ ~f.components[1].fixed) =>
                    LET resolved == index_map'[f.components[1]]
                    IN  \/ v.components = <<resolved>> /\ last - first + 1 = Len(f.derivatives)
                        \/ /\ last - first + 1 = Len(f.derivatives) + 1
                           /\ resolved \in {self'.transforms[first].index0,
                                            self'.transforms[first].index1}

C23_OneMap ==
    /\ [](C23_StartsEmpty /\ C23_Injective)
    /\ [][\A f \in Factors : Reads(f) => C23_Step(f)]_vars

\* A finished construction in which the free index 0 is the component of
\* one factor and a direction of another, and both stand as one index.
C23_Witness ==
    /\ pc = "done"
    /\ Index(0) \in DOMAIN index_map
    /\ \E a, b \in 1..Len(monomial) :
          /\ a # b
          /\ monomial[a].components = <<Index(0)>>
          /\ monomial[a].element = "V"
          /\ monomial[b].derivatives = <<Index(0)>>
          /\ monomial[b].components = <<>>
          /\ self.basis_functions[a].components = <<index_map[Index(0)]>>
          /\ \E k \in 1..Len(self.transforms) :
                /\ self.transforms[k].index0 = self.basis_functions[b].derivatives[1]
                /\ self.transforms[k].index1 = index_map[Index(0)]

(***************************************************************************)
(* C24.  A packaged factor: for its j-th direction the step creates one    *)
(* index without role over the geometric dimension, which is the j-th      *)
(* entry of the derivative list of the basis function, and the j-th of the *)
(* edges it adds last is an inverse-Jacobian edge of offset 0 and of the   *)
(* factor's restriction from that index to the index the direction         *)
(* resolves to, FIXED with the literal's value for a literal direction.    *)
(* While no factor has failed, the edges number the factors whose one      *)
(* component lies in a Piola-mapped sub-element plus all directions, and   *)
(* the basis functions are those of the factors read, in their order.      *)
(***************************************************************************)
C24_Step(f) ==
    LET n == Len(f.derivatives)
        last == Len(self'.transforms)
        v == self'.basis_functions[Len(self'.basis_functions)]
        gdim == geometric_dimension(f.element)
    IN  /\ Len(v.derivatives) = n
        /\ last - Len(self.transforms) \in {n, n + 1}
        /\ \A j \in 1..n :
              LET t == self'.transforms[last - n + j]
                  d == f.derivatives[j]
              IN  /\ v.derivatives[j] > Len(heap)
                  /\ \A i \in 1..n : i # j => v.derivatives[i] # v.derivatives[j]
                  /\ v.derivatives[j] \notin Elems(v.components)
                  /\ heap'[v.derivatives[j]] = MonomialIndex(NoneType, Range(gdim), NoneId)
                  /\ t.transform_type = JINV
                  /\ t.offset = 0
                  /\ t.restriction = f.restriction
                  /\ t.index0 = v.derivatives[j]
                  /\ StandsFor(heap', t.index1, index_map'[d], 0)
                  /\ d.fixed => /\ heap'[t.index1].index_type = FIXED
                                /\ heap'[t.index1].index_range = <<d.v>>

\* Factor k of the monomial has one component, in a Piola-mapped sub-element.
PiolaMapped(k) ==
    /\ Len(monomial[k].components) = 1
    /\ component_element(monomial[k].element,
                         heap[index_map[monomial[k].components[1]]].index_range[1]).mapping
           \in {CONTRAVARIANT_PIOLA, COVARIANT_PIOLA}

RECURSIVE Directions(_)
Directions(k) == IF k = 0 THEN 0 ELSE Len(monomial[k].derivatives) + Directions(k - 1)

C24_Counts ==
    (pc \in {"factors", "classify", "done"}) =>
        /\ Len(self.transforms) =
              Cardinality({ k \in 1..Len(monomial) : PiolaMapped(k) })
              + Directions(Len(monomial))
        /\ Len(self.basis_functions) = Len(monomial)
        /\ \A k \in 1..Len(monomial) :
              LET v == self.basis_functions[k]
                  f == monomial[k]
              IN  /\ v.element = f.element
                  /\ v.restriction = f.restriction
                  /\ Len(v.derivatives) = Len(f.derivatives)
                  /\ Len(v.components) = Len(f.components)
                  /\ f.function.kind = "BasisFunction" =>
                        /\ heap[v.index].index_type = PRIMARY
                        /\ heap[v.index].index_id = f.function.count

C24_DerivativeEdges ==
    /\ []C24_Counts
    /\ [][\A f \in Factors : (Reads(f) /\ error' = "") => C24_Step(f)]_vars

\* A finished construction of three factors: a Piola-mapped one, one with
\* two directions and one with a literal direction, and four edges.
C24_Witness ==
    /\ pc = "done"
    /\ Len(monomial) = 3
    /\ Cardinality({ k \in 1..3 : PiolaMapped(k) }) = 1
    /\ \E k \in 1..3 : Len(monomial[k].derivatives) = 2
    /\ \E k \in 1..3 : monomial[k].derivatives = <<FixedIndex(0)>>
    /\ Len(self.transforms) = 4

(***************************************************************************)
(* C25.  From the start of the classification on, for each of the roles    *)
(* SECONDARY, INTERNAL and EXTERNAL the indices of that role have the ids  *)
(* 0..k-1, each once, k being the counter of the role; an index met        *)
(* earlier in the internal footprint followed by the external one has the  *)
(* smaller id; and a step of the classification that gives an index a role *)
(* gives it the value of that role's counter as id, advances that counter  *)
(* by one and leaves the two others, and a step that gives no role leaves  *)
(* all three.                                                              *)
(***************************************************************************)
OfRole(h, role) == { i \in 1..Len(h) : h[i].index_type = role }

CounterOf(role) ==
    CASE role = SECONDARY -> current_secondary_index
      [] role = INTERNAL -> current_internal_index
      [] role = EXTERNAL -> current_external_index

\* The first position of index i in the list the classification runs over.
FirstMet(i) == CHOOSE k \in 1..Len(todo) : todo[k] = i /\ \A j \in 1..(k - 1) : todo[j] # i

C25_Ids ==
    InClassification =>
        \A role \in {SECONDARY, INTERNAL, EXTERNAL} :
            LET instances == OfRole(heap, role)
            IN  /\ CounterOf(role) = Cardinality(instances)
                /\ { heap[i].index_id : i \in instances } = 0..(Cardinality(instances) - 1)
                /\ \A i, j \in instances :
                      /\ i # j => heap[i].index_id # heap[j].index_id
                      /\ i \in Elems(todo)
                      /\ FirstMet(i) < FirstMet(j) => heap[i].index_id < heap[j].index_id

C25_Step ==
    (pc = "classify") =>
        LET typed == { i \in 1..Len(heap) :
                          heap[i].index_type = NoneType /\ heap'[i].index_type # NoneType }
            advance(role) == IF \E i \in typed : heap'[i].index_type = role THEN 1 ELSE 0
        IN  /\ Cardinality(typed) <= 1
            /\ \A i \in typed :
                  /\ heap'[i].index_type \in {SECONDARY, INTERNAL, EXTERNAL}
                  /\ heap'[i].index_id = CounterOf(heap'[i].index_type)
            /\ current_secondary_index' = current_secondary_index + advance(SECONDARY)
            /\ current_internal_index' = current_internal_index + advance(INTERNAL)
            /\ current_external_index' = current_external_index + advance(EXTERNAL)

C25_RoleIds == []C25_Ids /\ [][C25_Step]_vars

\* A finished construction with two indices of one role and an index of
\* another role.
C25_Witness ==
    /\ pc = "done"
    /\ \E r1, r2 \in {SECONDARY, INTERNAL, EXTERNAL} :
          /\ r1 # r2
          /\ Cardinality(OfRole(heap, r1)) = 2
          /\ Cardinality(OfRole(heap, r2)) >= 1

====
